---- MODULE Spec2Model ----
(***************************************************************************)
(* A model of the evmrs interpreter core of Tosca (rust/):                 *)
(*   - the code reader over classified bytecode (types/code_reader.rs),    *)
(*   - the mutex-guarded LRU cache (types/cache.rs) and the keccak cache   *)
(*     built on it (types/hash_cache.rs),                                  *)
(*   - the VM object with its option setter (evmrs.rs, ffi/evmc_vm.rs).    *)
(* The model follows the build with the cache features enabled and the     *)
(* classification flavor of the analysis (no fn-ptr-conversion-dispatch).  *)
(* Byte offsets are 0-based as in the source; At(s, i) reads offset i.     *)
(***************************************************************************)
EXTENDS Integers, Sequences, FiniteSets, TLC

VARIABLES
    \* CodeReader { code, code_analysis, pc } and the last reader call
    code, code_analysis, pc, rlast,
    \* one Cache<K, V> used on its own, and the last call made on it
    cache, calls, clast,
    \* threads calling get_or_insert on the shared Cache, and the builder runs
    mutex, thr, built,
    \* EvmRs { observer_type, hash_cache, code_analysis_cache_* } and the last call
    observer_type, hash_cache, code_analysis_cache_steppable,
    code_analysis_cache_non_steppable, vlast,
    \* host threads inside the C entry points of one VM instance
    gen, host,
    \* the process behind the C entry points, seen by a single-threaded host
    ffi,
    \* one ExecutionContext and the host callbacks it has made
    ctx,
    \* one evmc_result of the host being converted into an ExecutionResult
    conv,
    \* one step_n call on the VM
    frame,
    \* a CodeReader of the rewritten flavor next to the classification one
    creader,
    \* one frame run by the interpreter step by step, and what the host saw
    interp,
    \* the CodeReader::new calls made on one analysis cache
    newrd,
    \* the execute calls made on one VM
    exec

readerVars == <<code, code_analysis, pc, rlast>>
cacheVars == <<cache, calls, clast>>
concVars == <<mutex, thr, built>>
vmVars == <<observer_type, hash_cache, code_analysis_cache_steppable,
            code_analysis_cache_non_steppable, vlast>>
hostVars == <<gen, host>>
runVars == <<interp, newrd, exec>>
extVars == <<ffi, ctx, conv, frame, creader, runVars>>
vars == <<readerVars, cacheVars, concVars, vmVars, hostVars, extVars>>

----------------------------------------------------------------------------
(* Bounds of the model.                                                    *)

\* longest code the reader is run on
MaxCodeLen == 4

\* largest capacity a cache is created with
MaxCap == 3

\* longest sequence of get_or_insert calls on the cache used on its own
MaxCalls == 6

\* threads sharing one cache, and the largest capacity of that cache
NumThreads == 2
MaxConcCap == 2

\* host threads calling into one VM instance, and how often each cache field
\* of the VM is replaced
NumHostThreads == 2
MaxReplace == 2

----------------------------------------------------------------------------
(* Generic helpers.                                                        *)

At(s, i) == s[i + 1]

InRange(s, i) == i >= 0 /\ i < Len(s)

SeqsUpTo(S, n) == UNION {[1..k -> S] : k \in 0..n}

----------------------------------------------------------------------------
(* u256 values.  TLC integers are 32 bits wide, so a u256 is kept as its   *)
(* sixteen 16-bit limbs, least significant first.                          *)

LimbBase == 65536
U256Limbs == 16
U64Limbs == 4

U256Small(n) == [i \in 1..U256Limbs |-> IF i = 1 THEN n ELSE 0]

\* 2^64 + n: the smallest values that no longer fit 64 bits
U256Above64(n) == [i \in 1..U256Limbs |-> IF i = 1 THEN n ELSE IF i = U64Limbs + 1 THEN 1 ELSE 0]

\* 2^16 + n: fits 64 bits, the low limb alone is n
U256Above16(n) == [i \in 1..U256Limbs |-> IF i = 1 THEN n ELSE IF i = 2 THEN 1 ELSE 0]

U256Max == [i \in 1..U256Limbs |-> LimbBase - 1]

\* u64::try_from(u256): Err unless the value fits 64 bits (amount.rs is not
\* among the sources; this is the standard conversion)
U64TryFromFits(d) == \A i \in (U64Limbs + 1)..U256Limbs : d[i] = 0

\* `as usize` of a u64 (usize is 64 bits wide on the targets of the VM): the
\* value when it is below LimbBase; -1 stands for "at least LimbBase", which
\* is past the end of every slice of the model
UsizeOf(d) == IF \A i \in 2..U64Limbs : d[i] = 0 THEN d[1] ELSE -1

----------------------------------------------------------------------------
(* Opcodes and the code analysis (classification flavor).                  *)
(* types/opcode.rs and types/code_analysis.rs are not among the sources:   *)
(* the byte values are those of the EVM and the analysis is the linear     *)
(* pass of the specification (section 4.3).                                *)

OpAdd == 1
OpJumpDest == 91
OpPush1 == 96
OpPush2 == 97
OpPush32 == 127
ByteInvalidC0 == 192

IsPush(b) == b >= OpPush1 /\ b <= OpPush32

\* number of immediate bytes following opcode b
PushLen(b) == IF IsPush(b) THEN b - OpPush1 + 1 ELSE 0

IsKnownOpcode(b) ==
    \/ b \in 0..11
    \/ b \in 16..29
    \/ b = 32
    \/ b \in 48..74
    \/ b \in 80..95
    \/ b \in 96..127
    \/ b \in 128..159
    \/ b \in 160..164
    \/ b \in 240..245
    \/ b \in {250, 253, 255}

code_byte_type(b) ==
    IF IsPush(b) THEN "Opcode"
    ELSE IF b = OpJumpDest THEN "JumpDest"
    ELSE IF IsKnownOpcode(b) THEN "Opcode"
    ELSE "DataOrInvalid"

\* the scan loop: out[0..N] starts DataOrInvalid, i walks the instruction starts
RECURSIVE AnalyzeFrom(_, _, _)
AnalyzeFrom(c, i, out) ==
    IF i >= Len(c) THEN out
    ELSE AnalyzeFrom(c, i + 1 + PushLen(At(c, i)),
                     [out EXCEPT ![i + 1] = code_byte_type(At(c, i))])

analyze_code(c) == AnalyzeFrom(c, 0, [k \in 1..Len(c) |-> "DataOrInvalid"])

----------------------------------------------------------------------------
(* CodeReader (classification flavor).                                     *)

\* the bytes codes are made of: an ordinary opcode, JUMPDEST, PUSH1, PUSH2
\* and a byte that is no opcode
CodeBytes == {OpAdd, OpJumpDest, OpPush1, OpPush2, ByteInvalidC0}

Codes == SeqsUpTo(CodeBytes, MaxCodeLen)

\* the jump targets tried: every offset in and just past the code, values
\* whose low bits are such an offset but which are larger, and u256::MAX
JumpTargets ==
    {U256Small(n) : n \in 0..(MaxCodeLen + 1)}
        \cup {U256Above16(n) : n \in 0..MaxCodeLen}
        \cup {U256Above64(n) : n \in 0..MaxCodeLen}
        \cup {U256Max}

NoTarget == U256Small(0)

\* the wrapping cast `dest.low_u64() as usize` instead of u64::try_from
TryJumpFits_Wrapping(dest) == TRUE

\* u64::try_from(dest).map_err(..)? : whether the conversion succeeds
TryJumpFits(dest) == U64TryFromFits(dest)

\* accepting any in-range 0x5B byte, not looking at the analysis
IsJumpDestAt_RawByte(c, analysis, d) == InRange(c, d) /\ At(c, d) = OpJumpDest

\* analysis.get(dest).is_some_and(|c| *c == CodeByteType::JumpDest)
IsJumpDestAt(c, analysis, d) == InRange(analysis, d) /\ At(analysis, d) = "JumpDest"

\* CodeReader::try_jump: the result and the pc it leaves
try_jump(c, analysis, p, dest) ==
    IF ~TryJumpFits(dest) THEN [res |-> "BadJumpDestination", pc |-> p]
    ELSE IF ~IsJumpDestAt(c, analysis, UsizeOf(dest))
        THEN [res |-> "BadJumpDestination", pc |-> p]
    ELSE [res |-> "Ok", pc |-> UsizeOf(dest)]

\* CodeReader::get
\* a get whose bounds test is off by one
get_PastEnd(c, analysis, p) ==
    IF p <= Len(c)
        THEN IF p < Len(c) /\ At(analysis, p) = "DataOrInvalid"
                THEN [res |-> "Invalid", op |-> <<>>]
                ELSE [res |-> "Ok", op |-> <<IF p < Len(c) THEN At(c, p) ELSE 0>>]
        ELSE [res |-> "OutOfRange", op |-> <<>>]

\* CodeReader::get of the classification flavor: Ok(op) carries the byte
get(c, analysis, p) ==
    IF InRange(c, p)
        THEN IF At(analysis, p) = "DataOrInvalid"
                THEN [res |-> "Invalid", op |-> <<>>]
                ELSE [res |-> "Ok", op |-> <<At(c, p)>>]
        ELSE [res |-> "OutOfRange", op |-> <<>>]

ReaderInit ==
    /\ code \in Codes
    /\ code_analysis = analyze_code(code)
    /\ pc \in 0..Len(code)
    /\ rlast = [op |-> "new", dest |-> NoTarget, res |-> "Ok"]

ReaderIdle ==
    /\ code = <<>>
    /\ code_analysis = <<>>
    /\ pc = 0
    /\ rlast = [op |-> "none", dest |-> NoTarget, res |-> "Ok"]

\* CodeReader::next, also from the last cell and from the end of the code
ReaderNext ==
    /\ pc <= Len(code)
    /\ pc' = pc + 1
    /\ rlast' = [op |-> "next", dest |-> NoTarget, res |-> "Ok"]
    /\ UNCHANGED <<code, code_analysis>>

ReaderTryJump ==
    \E dest \in JumpTargets :
        LET r == try_jump(code, code_analysis, pc, dest) IN
        /\ pc' = r.pc
        /\ rlast' = [op |-> "try_jump", dest |-> dest, res |-> r.res]
        /\ UNCHANGED <<code, code_analysis>>

ReaderGet ==
    /\ LET r == get(code, code_analysis, pc) IN
       rlast' = [op |-> "get", dest |-> NoTarget, res |-> r.res, ret |-> r.op]
    /\ UNCHANGED <<code, code_analysis, pc>>

\* longest code get_push_data is run on: a PUSH32 with all of its immediate
MaxPushCodeLen == 33

\* PushDataLen::<N>::VALID: N > 0 && N <= 32
PushMaxLen == 32

\* u256::from_be_bytes of 32 bytes, as limbs
FromBeBytes(data) ==
    [i \in 1..U256Limbs |-> data[33 - 2 * i] * 256 + data[34 - 2 * i]]

\* a copy that right-aligns the bytes that are left in the code
get_push_data_RightAligned(c, p, N) ==
    LET data_len == IF N < Len(c) - p THEN N ELSE Len(c) - p
        data == [j \in 1..32 |->
                    IF j - 1 >= 32 - data_len
                        THEN c[p + (j - 1 - (32 - data_len)) + 1] ELSE 0] IN
    [res |-> "Ok", ret |-> FromBeBytes(data), pc |-> p + N]

\* CodeReader::get_push_data::<N> of the classification flavor; slicing
\* code[pc..pc + 0] panics when pc is past the end
get_push_data(c, p, N) ==
    LET rest == IF Len(c) >= p THEN Len(c) - p ELSE 0
        data_len == IF N < rest THEN N ELSE rest
        data == [j \in 1..32 |->
                    IF j - 1 >= 32 - N /\ j - 1 < 32 - N + data_len
                        THEN c[p + (j - 1 - (32 - N)) + 1] ELSE 0] IN
    IF p > Len(c) THEN [res |-> "Panic", ret |-> NoTarget, pc |-> p]
    ELSE [res |-> "Ok", ret |-> FromBeBytes(data), pc |-> p + N]

\* the codes get_push_data is run on: distinct bytes, and the 0xFF bytes of
\* the tests
PushCodes ==
    {[i \in 1..n |-> (i * 37) % 256] : n \in 0..MaxPushCodeLen}
        \cup {[i \in 1..n |-> 255] : n \in {PushMaxLen, MaxPushCodeLen}}

PushInit ==
    /\ code \in PushCodes
    /\ code_analysis = analyze_code(code)
    /\ pc \in 0..Len(code)
    /\ rlast = [op |-> "new", dest |-> NoTarget, res |-> "Ok"]

ReaderGetPushData ==
    \E N \in 1..PushMaxLen :
        LET r == get_push_data(code, pc, N) IN
        /\ pc <= Len(code) + 1
        /\ pc' = r.pc
        /\ rlast' = [op |-> "get_push_data", dest |-> NoTarget, res |-> r.res,
                     n |-> N, ret |-> r.ret]
        /\ UNCHANGED <<code, code_analysis>>


----------------------------------------------------------------------------
(* Cache<K, V>: a Mutex around lru::LruCache.  The LRU list is kept most    *)
(* recently used first; an entry is [key, val].                            *)

\* Cache::new panics on size 0: NonZeroUsize::new(size).unwrap()
CacheNewPanics(size) == size = 0

\* Cache::new(size), for a size it does not panic on
CacheNew(size) == [cap |-> size, entries |-> <<>>]

KeysOf(c) == {c.entries[i].key : i \in 1..Len(c.entries)}

\* position of key k in the list, 0 when absent
LruFind(c, k) ==
    IF k \in KeysOf(c) THEN CHOOSE i \in 1..Len(c.entries) : c.entries[i].key = k ELSE 0

RemoveAt(s, i) == SubSeq(s, 1, i - 1) \o SubSeq(s, i + 1, Len(s))

\* a hit that leaves the entry where it is in the list
LruPromote_NoRefresh(c, i) == c

\* a hit: the node is detached and attached again at the front
LruPromote(c, i) == [c EXCEPT !.entries = <<c.entries[i]>> \o RemoveAt(c.entries, i)]

\* the value a hit hands out (cloned by Cache::get_or_insert)
LruHitValue(c, i) == c.entries[i].val

\* the entry a miss evicts: the back of the list when the cache is full
LruEvicted(c) == IF Len(c.entries) = c.cap THEN <<c.entries[Len(c.entries)]>> ELSE <<>>

\* a miss that never evicts
LruInsert_NoEvict(c, k, v) == [c EXCEPT !.entries = <<[key |-> k, val |-> v]>> \o c.entries]

\* a miss: the evicted entry leaves, the new one is attached at the front
LruInsert(c, k, v) ==
    LET ev == LruEvicted(c)
        kept == IF ev = <<>> THEN c.entries
                ELSE RemoveAt(c.entries, LruFind(c, ev[1].key))
    IN [c EXCEPT !.entries = <<[key |-> k, val |-> v]>> \o kept]

\* LruCache::get_or_insert(k, f) with v the value f() builds; f runs only on
\* a miss.  Cache::get_or_insert and Cache::get_or_insert_ref both lock the
\* mutex, call it and clone the value
get_or_insert(c, k, v) ==
    LET i == LruFind(c, k) IN
    IF i > 0
        THEN [cache |-> LruPromote(c, i), hit |-> TRUE, ret |-> LruHitValue(c, i),
              evicted |-> <<>>]
        ELSE [cache |-> LruInsert(c, k, v), hit |-> FALSE, ret |-> v,
              evicted |-> LruEvicted(c)]

----------------------------------------------------------------------------
(* One Cache used by one caller.                                           *)

Keys == 1..(MaxCap + 1)

\* the value the builder of key k returns (a pure function of the key, as
\* the analysis of a code and the digest of a byte string are)
Builder(k) == 100 + k

CacheInit ==
    /\ \E size \in 1..MaxCap : cache = CacheNew(size)
    /\ calls = <<>>
    /\ clast = [hit |-> FALSE, ret |-> <<>>, gone |-> [k \in Keys |-> <<>>]]

\* one get_or_insert call; calls is the history of keys asked for, clast.ret
\* holds the value returned and clast.gone[k] the value k had when it was
\* last evicted (both as sequences of one element, empty when there is none)
CacheGetOrInsert ==
    /\ Len(calls) < MaxCalls
    /\ \E k \in Keys :
        LET r == get_or_insert(cache, k, Builder(k)) IN
        /\ cache' = r.cache
        /\ calls' = Append(calls, k)
        /\ clast' = [hit |-> r.hit, ret |-> <<r.ret>>,
                     gone |-> IF r.evicted = <<>> THEN clast.gone
                              ELSE [clast.gone EXCEPT ![r.evicted[1].key] = <<r.evicted[1].val>>]]

----------------------------------------------------------------------------
(* One Cache shared by threads.  A call is                                 *)
(*     self.0.lock().unwrap().get_or_insert(key, f).clone()                *)
(* the guard lives until the value is cloned; inside, LruCache looks the   *)
(* key up, on a miss runs f, then evicts and attaches the new node.        *)

Threads == 1..NumThreads

ConcKeys == 1..(MaxConcCap + 1)

NoThread == 0

ThreadIdle == [pc |-> "idle", key |-> 0, val |-> 0, ret |-> 0]

InCriticalSection == {"lookup", "build", "insert", "ret"}

\* a lock that never blocks
MutexFree_NoLock(m) == TRUE

\* Mutex::lock blocks until no thread holds the mutex
MutexFree(m) == m = NoThread

ConcInit ==
    /\ \E size \in 1..MaxConcCap : cache = CacheNew(size)
    /\ mutex = NoThread
    /\ thr = [t \in Threads |-> ThreadIdle]
    /\ built = [k \in ConcKeys |-> 0]

\* a thread enters Cache::get_or_insert with some key
ThreadCall(t) ==
    /\ thr[t].pc = "idle"
    /\ \E k \in ConcKeys : thr' = [thr EXCEPT ![t] = [ThreadIdle EXCEPT !.pc = "wait", !.key = k]]
    /\ UNCHANGED <<cache, mutex, built>>

\* self.0.lock()
ThreadLock(t) ==
    /\ thr[t].pc = "wait"
    /\ MutexFree(mutex)
    /\ mutex' = t
    /\ thr' = [thr EXCEPT ![t].pc = "lookup"]
    /\ UNCHANGED <<cache, built>>

\* the map lookup of LruCache::get_or_insert; a hit moves the node to the front
ThreadLookup(t) ==
    /\ thr[t].pc = "lookup"
    /\ LET i == LruFind(cache, thr[t].key) IN
        IF i > 0
            THEN /\ cache' = LruPromote(cache, i)
                 /\ thr' = [thr EXCEPT ![t].pc = "ret", ![t].ret = LruHitValue(cache, i)]
            ELSE /\ thr' = [thr EXCEPT ![t].pc = "build"]
                 /\ UNCHANGED cache
    /\ UNCHANGED <<mutex, built>>

\* let v = f(); built[k] counts the builder runs for k since k last left the cache
ThreadBuild(t) ==
    /\ thr[t].pc = "build"
    /\ thr' = [thr EXCEPT ![t].pc = "insert", ![t].val = Builder(thr[t].key)]
    /\ built' = [built EXCEPT ![thr[t].key] = @ + 1]
    /\ UNCHANGED <<cache, mutex>>

\* replace_or_create_node, attach, map.insert
ThreadInsert(t) ==
    /\ thr[t].pc = "insert"
    /\ cache' = LruInsert(cache, thr[t].key, thr[t].val)
    /\ thr' = [thr EXCEPT ![t].pc = "ret", ![t].ret = thr[t].val]
    /\ built' = [k \in ConcKeys |->
                    IF k \in KeysOf(cache) /\ k \notin KeysOf(cache') THEN 0 ELSE built[k]]
    /\ UNCHANGED mutex

\* .clone() and the guard is dropped at the end of the statement
ThreadUnlock(t) ==
    /\ thr[t].pc = "ret"
    /\ mutex' = NoThread
    /\ thr' = [thr EXCEPT ![t].pc = "idle"]
    /\ UNCHANGED <<cache, built>>

ConcIdle ==
    /\ mutex = NoThread
    /\ thr = <<>>
    /\ built = <<>>

\* the value cached for key k
CachedValue(c, k) == c.entries[LruFind(c, k)].val

\* C6: under every interleaving of get_or_insert calls by several threads on
\* one Cache, a call's lookup, builder run and insertion form one atomic
\* step: callers asking for a key that stays cached receive the same value,
\* the builder of that key runs at most once while it stays cached, and the
\* size bound holds in every intermediate state.
C6_CallsAreAtomic ==
    /\ Cardinality({t \in Threads : thr[t].pc \in InCriticalSection}) <= 1
    /\ \A t \in Threads : thr[t].pc \in InCriticalSection => mutex = t
    /\ Len(cache.entries) <= cache.cap
    /\ Cardinality(KeysOf(cache)) = Len(cache.entries)
    /\ \A k \in ConcKeys : built[k] <= 1
    /\ \A k \in KeysOf(cache) : built[k] = 1
    /\ \A t \in Threads :
        /\ thr[t].pc \in {"build", "insert"} => thr[t].key \notin KeysOf(cache)
        /\ thr[t].pc = "ret" =>
              /\ thr[t].key \in KeysOf(cache)
              /\ thr[t].ret = CachedValue(cache, thr[t].key)

\* a thread is about to insert into a full cache the key another thread is
\* waiting at the lock for
C6_Witness ==
    \E t1, t2 \in Threads :
        /\ t1 # t2
        /\ thr[t1].pc = "insert"
        /\ thr[t2].pc = "wait"
        /\ thr[t1].key = thr[t2].key
        /\ Len(cache.entries) = cache.cap

----------------------------------------------------------------------------
(* HashCache: two Caches, for 32-byte and for 64-byte inputs.              *)

HashLen32 == 32
HashLen64 == 64
HashCacheDefaultSize == 1024

\* HashCache::new(size) builds both sub-caches with Cache::new(size)
HashCacheNewPanics(size) == CacheNewPanics(size)

HashCacheNew(size) == [hash_cache_32 |-> CacheNew(size), hash_cache_64 |-> CacheNew(size)]

RECURSIVE SumBytes(_)
SumBytes(data) == IF data = <<>> THEN 0 ELSE data[1] + SumBytes(Tail(data))

\* HashCache::sha3: keccak-256 is an external primitive; it is stood in for
\* by a digest that tells the inputs of the model apart and depends on the
\* bytes alone
sha3(data) == 7 + 131 * Len(data) + 31 * SumBytes(data)

\* a 64-byte input looked up in the 32-byte cache under its first half
hash_Short64(hc, data) ==
    IF Len(data) = HashLen32 \/ Len(data) = HashLen64
        THEN LET key == SubSeq(data, 1, HashLen32)
                 r == get_or_insert(hc.hash_cache_32, key, sha3(data))
             IN [hash_cache |-> [hc EXCEPT !.hash_cache_32 = r.cache],
                 ret |-> r.ret, hit |-> r.hit, evicted |-> r.evicted]
        ELSE [hash_cache |-> hc, ret |-> sha3(data), hit |-> FALSE, evicted |-> <<>>]

\* a hash that keeps inputs of the other lengths in the 32-byte cache too
hash_CachesOtherLengths(hc, data) ==
    IF Len(data) = HashLen64
        THEN [hash_cache |->
                  [hc EXCEPT !.hash_cache_64 =
                      get_or_insert(hc.hash_cache_64, data, sha3(data)).cache],
              ret |-> sha3(data), hit |-> data \in KeysOf(hc.hash_cache_64), evicted |-> <<>>]
        ELSE [hash_cache |->
                  [hc EXCEPT !.hash_cache_32 =
                      get_or_insert(hc.hash_cache_32, data, sha3(data)).cache],
              ret |-> sha3(data), hit |-> data \in KeysOf(hc.hash_cache_32), evicted |-> <<>>]

\* HashCache::hash (feature hash-cache)
hash(hc, data) ==
    IF Len(data) = HashLen32
        THEN LET r == get_or_insert(hc.hash_cache_32, data, sha3(data)) IN
             [hash_cache |-> [hc EXCEPT !.hash_cache_32 = r.cache],
              ret |-> r.ret, hit |-> r.hit, evicted |-> r.evicted]
    ELSE IF Len(data) = HashLen64
        THEN LET r == get_or_insert(hc.hash_cache_64, data, sha3(data)) IN
             [hash_cache |-> [hc EXCEPT !.hash_cache_64 = r.cache],
              ret |-> r.ret, hit |-> r.hit, evicted |-> r.evicted]
    ELSE [hash_cache |-> hc, ret |-> sha3(data), hit |-> FALSE, evicted |-> <<>>]

Fill(n, b) == [i \in 1..n |-> b]

\* the inputs hashed: three of each cached length and some of other lengths
HashInputs ==
    {Fill(HashLen32, b) : b \in 1..3}
        \cup {Fill(HashLen64, b) : b \in 1..3}
        \cup {<<>>, Fill(HashLen32 - 1, 1), Fill(HashLen32 + 1, 1), Fill(HashLen64 + 1, 1)}

\* the last call on the VM: vlast.gone is the set of inputs evicted so far
VmLastNone ==
    [op |-> "none", key |-> "", value |-> <<>>, res |-> "Ok", ret |-> 0,
     hit |-> FALSE, gone |-> {}]

HashInit ==
    /\ observer_type = "NoOp"
    /\ \E size \in 1..MaxCap : hash_cache = HashCacheNew(size)
    /\ code_analysis_cache_steppable = <<>>
    /\ code_analysis_cache_non_steppable = <<>>
    /\ vlast = VmLastNone

\* one HashCache::hash call
HashCall ==
    \E data \in HashInputs :
        LET r == hash(hash_cache, data) IN
        /\ hash_cache' = r.hash_cache
        /\ vlast' = [op |-> "hash", key |-> "", value |-> data, res |-> "Ok",
                     ret |-> r.ret, hit |-> r.hit,
                     gone |-> vlast.gone \cup {r.evicted[i].key : i \in 1..Len(r.evicted)}]
        /\ UNCHANGED <<observer_type, code_analysis_cache_steppable,
                       code_analysis_cache_non_steppable>>

EntriesOf(c) == {c.entries[i] : i \in 1..Len(c.entries)}

\* C3: for every HashCache of capacity >= 1, every byte string x and every
\* history of earlier hash calls (also ones that inserted, hit or evicted x),
\* hash(x) returns keccak-256(x): a value served from the cache equals the
\* value first computed and the value a cache-less computation gives.
C3_HashEqualsKeccak ==
    /\ vlast.op = "hash" => vlast.ret = sha3(vlast.value)
    /\ \A e \in EntriesOf(hash_cache.hash_cache_32) \cup EntriesOf(hash_cache.hash_cache_64) :
          e.val = sha3(e.key)

\* a hit on an input that had been evicted and inserted again, in a full
\* sub-cache holding other inputs too
C3_Witness ==
    /\ vlast.op = "hash"
    /\ vlast.hit
    /\ vlast.value \in vlast.gone
    /\ Len(vlast.value) = HashLen64
    /\ Len(hash_cache.hash_cache_64.entries) = hash_cache.hash_cache_64.cap
    /\ hash_cache.hash_cache_64.cap >= 2

----------------------------------------------------------------------------
(* EvmRs: the VM object and EvmRs::set_option.  Option keys are compared   *)
(* as wholes; option values are sequences of characters, since the size    *)
(* options parse them.                                                     *)

StrTrue == <<"t", "r", "u", "e">>
StrFalse == <<"f", "a", "l", "s", "e">>
StrEmpty == <<>>
\* 2^64, one more than usize::MAX
StrTwoTo64 ==
    <<"1", "8", "4", "4", "6", "7", "4", "4", "0", "7", "3", "7", "0", "9", "5", "5",
      "1", "6", "1", "6">>

\* usize::MAX = 18446744073709551615 as decimal digits
UsizeMaxDigits == <<1, 8, 4, 4, 6, 7, 4, 4, 0, 7, 3, 7, 0, 9, 5, 5, 1, 6, 1, 5>>

DigitChars == <<"0", "1", "2", "3", "4", "5", "6", "7", "8", "9">>

\* the value of a decimal digit character, -1 for any other character
DigitVal(ch) ==
    IF \E d \in 1..10 : DigitChars[d] = ch
        THEN (CHOOSE d \in 1..10 : DigitChars[d] = ch) - 1
        ELSE -1

RECURSIVE StripZeros(_)
StripZeros(ds) == IF ds # <<>> /\ ds[1] = 0 THEN StripZeros(Tail(ds)) ELSE ds

\* ds > m for two digit sequences of equal length
RECURSIVE DigitsGreater(_, _)
DigitsGreater(ds, m) ==
    /\ ds # <<>>
    /\ \/ ds[1] > m[1]
       \/ ds[1] = m[1] /\ DigitsGreater(Tail(ds), Tail(m))

\* the checked multiply-and-add of the digit loop overflows usize
DigitsOverflow(ds) ==
    LET n == StripZeros(ds) IN
    \/ Len(n) > Len(UsizeMaxDigits)
    \/ Len(n) = Len(UsizeMaxDigits) /\ DigitsGreater(n, UsizeMaxDigits)

RECURSIVE DigitsValue(_, _)
DigitsValue(ds, acc) == IF ds = <<>> THEN acc ELSE DigitsValue(Tail(ds), acc * 10 + ds[1])

ParseErr == [ok |-> FALSE, val |-> 0]

\* a parser that reads the leading digits and ignores what follows them
ParseUsize_Lenient(str) ==
    LET n == IF \E i \in 1..Len(str) : DigitVal(str[i]) < 0
                 THEN (CHOOSE i \in 1..Len(str) :
                          DigitVal(str[i]) < 0 /\ \A j \in 1..(i - 1) : DigitVal(str[j]) >= 0) - 1
                 ELSE Len(str)
        ds == [i \in 1..n |-> DigitVal(str[i])]
    IN IF DigitsOverflow(ds) THEN ParseErr ELSE [ok |-> TRUE, val |-> DigitsValue(ds, 0)]

\* str.parse::<usize>(): an optional '+', then one or more decimal digits,
\* with overflow an error.  The value is computed for the sizes of the
\* model only, which are small.
ParseUsize(str) ==
    IF str = <<>> THEN ParseErr
    ELSE LET body == IF str[1] = "+" THEN Tail(str) ELSE str
             ds == [i \in 1..Len(body) |-> DigitVal(body[i])]
         IN IF body = <<>> THEN ParseErr
            ELSE IF \E i \in 1..Len(ds) : ds[i] < 0 THEN ParseErr
            ELSE IF DigitsOverflow(ds) THEN ParseErr
            ELSE [ok |-> TRUE, val |-> DigitsValue(ds, 0)]

AnalysisCacheDefaultSize == 1024

\* CodeAnalysisCache::new(size) wraps Cache::new(size)
CodeAnalysisCacheNewPanics(size) == CacheNewPanics(size)

CodeAnalysisCacheNew(size) == CacheNew(size)

\* the fields of EvmRs
Vm ==
    [observer_type |-> observer_type,
     hash_cache |-> hash_cache,
     code_analysis_cache_steppable |-> code_analysis_cache_steppable,
     code_analysis_cache_non_steppable |-> code_analysis_cache_non_steppable]

\* an option setter that rejects the keys it does not know
SetOptionUnknown_Reject(vm) == [vm |-> vm, res |-> "InvalidKey"]

\* the arm `_ => ()` followed by Ok(())
SetOptionUnknown(vm) == [vm |-> vm, res |-> "Ok"]

\* the arm ("code-analysis-cache-size", size); a panic in the first
\* CodeAnalysisCache::new leaves both fields as they were
SetAnalysisCacheSize(vm, value) ==
    LET size == ParseUsize(value) IN
    IF ~size.ok THEN [vm |-> vm, res |-> "InvalidValue"]
    ELSE IF CodeAnalysisCacheNewPanics(size.val) THEN [vm |-> vm, res |-> "Panic"]
    ELSE [vm |-> [vm EXCEPT !.code_analysis_cache_steppable = CodeAnalysisCacheNew(size.val),
                            !.code_analysis_cache_non_steppable = CodeAnalysisCacheNew(size.val)],
          res |-> "Ok"]

\* a hash cache option that changes the capacity and keeps the entries
SetHashCacheSize_KeepsEntries(vm, value) ==
    IF ~ParseUsize(value).ok THEN [vm |-> vm, res |-> "InvalidValue"]
    ELSE IF HashCacheNewPanics(ParseUsize(value).val) THEN [vm |-> vm, res |-> "Panic"]
    ELSE [vm |-> [vm EXCEPT !.hash_cache.hash_cache_32.cap = ParseUsize(value).val + 1,
                            !.hash_cache.hash_cache_64.cap = ParseUsize(value).val + 1],
          res |-> "Ok"]

\* the arm ("hash-cache-size", size)
SetHashCacheSize(vm, value) ==
    LET size == ParseUsize(value) IN
    IF ~size.ok THEN [vm |-> vm, res |-> "InvalidValue"]
    ELSE IF HashCacheNewPanics(size.val) THEN [vm |-> vm, res |-> "Panic"]
    ELSE [vm |-> [vm EXCEPT !.hash_cache = HashCacheNew(size.val)], res |-> "Ok"]

\* EvmRs::set_option: the VM it leaves and what it returns ("Panic" when it
\* unwinds instead of returning)
set_option(vm, key, value) ==
    IF key = "logging" /\ value = StrTrue
        THEN [vm |-> [vm EXCEPT !.observer_type = "Logging"], res |-> "Ok"]
    ELSE IF key = "logging" /\ value = StrFalse
        THEN [vm |-> [vm EXCEPT !.observer_type = "NoOp"], res |-> "Ok"]
    ELSE IF key = "code-analysis-cache-size" THEN SetAnalysisCacheSize(vm, value)
    ELSE IF key = "hash-cache-size" THEN SetHashCacheSize(vm, value)
    ELSE SetOptionUnknown(vm)

OptionKeys == {"logging", "code-analysis-cache-size", "hash-cache-size", "key"}

OptionValues ==
    {StrTrue, StrFalse, StrEmpty, <<"0">>, <<"1">>, <<"+", "2">>, <<"-", "1">>, <<"1", "x">>,
     StrTwoTo64}

\* the codes executed on the VM and the code hash the host sends with each
VmCodes == <<<<OpJumpDest>>, <<OpPush1, OpJumpDest>>>>

CodeHashes == 1..Len(VmCodes)

\* the inputs hashed on the VM
VmHashInputs == {Fill(HashLen32, 1), Fill(HashLen64, 1)}

\* EvmRs::init
VmInit ==
    /\ observer_type = "NoOp"
    /\ hash_cache = HashCacheNew(HashCacheDefaultSize)
    /\ code_analysis_cache_steppable = CodeAnalysisCacheNew(AnalysisCacheDefaultSize)
    /\ code_analysis_cache_non_steppable = CodeAnalysisCacheNew(AnalysisCacheDefaultSize)
    /\ vlast = VmLastNone

\* one EvmRs::set_option call
VmSetOption ==
    \E key \in OptionKeys, value \in OptionValues :
        LET r == set_option(Vm, key, value) IN
        /\ observer_type' = r.vm.observer_type
        /\ hash_cache' = r.vm.hash_cache
        /\ code_analysis_cache_steppable' = r.vm.code_analysis_cache_steppable
        /\ code_analysis_cache_non_steppable' = r.vm.code_analysis_cache_non_steppable
        /\ vlast' = [VmLastNone EXCEPT !.op = "set_option", !.key = key, !.value = value,
                                       !.res = r.res]

\* CodeAnalysis::new(code, Some(code_hash), cache): one get_or_insert with
\* the analysis of the code as the builder
analysis_new(c, h) == get_or_insert(c, h, analyze_code(VmCodes[h]))

\* the CodeReader::new of an execute call (non-steppable cache) or of a
\* step_n call (steppable cache) on a code whose hash the host supplies
VmNewReader ==
    \E h \in CodeHashes, steppable \in BOOLEAN :
        /\ IF steppable
              THEN /\ code_analysis_cache_steppable' =
                        analysis_new(code_analysis_cache_steppable, h).cache
                   /\ UNCHANGED code_analysis_cache_non_steppable
              ELSE /\ code_analysis_cache_non_steppable' =
                        analysis_new(code_analysis_cache_non_steppable, h).cache
                   /\ UNCHANGED code_analysis_cache_steppable
        /\ vlast' = [VmLastNone EXCEPT !.op = IF steppable THEN "step_n" ELSE "execute",
                                       !.ret = h]
        /\ UNCHANGED <<observer_type, hash_cache>>

\* a keccak computed by the running interpreter through the VM's hash cache
VmHash ==
    \E data \in VmHashInputs :
        LET r == hash(hash_cache, data) IN
        /\ hash_cache' = r.hash_cache
        /\ vlast' = [VmLastNone EXCEPT !.op = "hash", !.value = data, !.ret = r.ret,
                                       !.hit = r.hit]
        /\ UNCHANGED <<observer_type, code_analysis_cache_steppable,
                       code_analysis_cache_non_steppable>>

----------------------------------------------------------------------------
(* Host threads calling the C entry points of one VM instance.             *)
(* __evmc_execute and __evmc_set_option both turn the instance pointer     *)
(* into a reference with ref_mut_from_ptr_scoped and take no lock: the     *)
(* fields of EvmRs are plain fields.  execute borrows the caches when it   *)
(* builds the Interpreter, reads observer_type after that and then runs;   *)
(* set_option assigns the fields one statement after the other.  gen       *)
(* numbers the cache object each field holds, so that a borrow taken       *)
(* before a replacement can be told from the field's current content.      *)

HostThreads == 1..NumHostThreads

HostIdleThread ==
    [pc |-> "idle", op |-> "", key |-> "", value |-> <<>>, ref_analysis |-> 0,
     ref_hash |-> 0, obs |-> "", out |-> ""]

\* the options set while other threads execute
HostOptions ==
    {<<"logging", StrTrue>>, <<"logging", StrFalse>>, <<"logging", <<"1">>>>,
     <<"code-analysis-cache-size", <<"1">>>>, <<"code-analysis-cache-size", <<"1", "x">>>>,
     <<"hash-cache-size", <<"1">>>>}

\* the code the concurrent calls run: the last of VmCodes
HostCodeHash == Len(VmCodes)

HostHashInput == Fill(HashLen32, 1)

\* what a use of a dropped cache can do
DanglingOutcomes == {"ok", "garbage", "crash"}

HostInit ==
    /\ gen = [hash_cache |-> 0, steppable |-> 0, non_steppable |-> 0]
    /\ host = [t \in HostThreads |-> HostIdleThread]

\* the generation of the analysis cache a call of kind op works with
AnalysisGen(op) == IF op = "step_n" THEN gen.steppable ELSE gen.non_steppable

\* a host thread enters execute (or step_n)
HostEnter(t) ==
    /\ host[t].pc = "idle"
    /\ \E op \in {"execute", "step_n"} :
          host' = [host EXCEPT ![t] = [HostIdleThread EXCEPT !.pc = "new", !.op = op]]
    /\ UNCHANGED <<gen, observer_type, hash_cache, code_analysis_cache_steppable,
                   code_analysis_cache_non_steppable, vlast>>

\* Interpreter::new / new_steppable: both caches are borrowed and the code
\* reader looks its analysis up
HostNew(t) ==
    /\ host[t].pc = "new"
    /\ host' = [host EXCEPT ![t].pc = "observer",
                            ![t].ref_analysis = AnalysisGen(host[t].op),
                            ![t].ref_hash = gen.hash_cache]
    /\ IF host[t].op = "step_n"
          THEN /\ code_analysis_cache_steppable' =
                    analysis_new(code_analysis_cache_steppable, HostCodeHash).cache
               /\ UNCHANGED code_analysis_cache_non_steppable
          ELSE /\ code_analysis_cache_non_steppable' =
                    analysis_new(code_analysis_cache_non_steppable, HostCodeHash).cache
               /\ UNCHANGED code_analysis_cache_steppable
    /\ UNCHANGED <<gen, observer_type, hash_cache, vlast>>

\* match self.observer_type
HostObserver(t) ==
    /\ host[t].pc = "observer"
    /\ host' = [host EXCEPT ![t].pc = "run", ![t].obs = observer_type]
    /\ UNCHANGED <<gen, observer_type, hash_cache, code_analysis_cache_steppable,
                   code_analysis_cache_non_steppable, vlast>>

\* interpreter.run: the borrowed hash cache is used; when a borrowed cache
\* was replaced meanwhile the reference dangles and the outcome is open
HostRun(t) ==
    /\ host[t].pc = "run"
    /\ IF host[t].ref_hash = gen.hash_cache /\ host[t].ref_analysis = AnalysisGen(host[t].op)
          THEN /\ host' = [host EXCEPT ![t].pc = "idle", ![t].out = "ok"]
               /\ hash_cache' = hash(hash_cache, HostHashInput).hash_cache
          ELSE /\ \E o \in DanglingOutcomes :
                     host' = [host EXCEPT ![t].pc = "idle", ![t].out = o]
               /\ UNCHANGED hash_cache
    /\ UNCHANGED <<gen, observer_type, code_analysis_cache_steppable,
                   code_analysis_cache_non_steppable, vlast>>

\* a host thread enters set_option
HostSetOption(t) ==
    /\ host[t].pc = "idle"
    /\ \E o \in HostOptions :
          host' = [host EXCEPT ![t] = [HostIdleThread EXCEPT !.pc = "set", !.op = "set_option",
                                                             !.key = o[1], !.value = o[2]]]
    /\ UNCHANGED <<gen, observer_type, hash_cache, code_analysis_cache_steppable,
                   code_analysis_cache_non_steppable, vlast>>

\* EvmRs::set_option up to and including its first assignment
HostSetFirst(t) ==
    /\ host[t].pc = "set"
    /\ LET r == set_option(Vm, host[t].key, host[t].value)
           both == host[t].key = "code-analysis-cache-size" /\ r.res = "Ok"
           hashes == host[t].key = "hash-cache-size" /\ r.res = "Ok"
       IN /\ both => gen.steppable < MaxReplace /\ gen.non_steppable < MaxReplace
          /\ hashes => gen.hash_cache < MaxReplace
          /\ observer_type' = r.vm.observer_type
          /\ hash_cache' = r.vm.hash_cache
          /\ code_analysis_cache_steppable' = r.vm.code_analysis_cache_steppable
          /\ UNCHANGED code_analysis_cache_non_steppable
          /\ gen' = [gen EXCEPT !.steppable = IF both THEN @ + 1 ELSE @,
                                !.hash_cache = IF hashes THEN @ + 1 ELSE @]
          /\ host' = [host EXCEPT ![t].pc = IF both THEN "set2" ELSE "idle", ![t].out = r.res]
    /\ UNCHANGED vlast

\* the second assignment of the arm ("code-analysis-cache-size", size)
HostSetSecond(t) ==
    /\ host[t].pc = "set2"
    /\ code_analysis_cache_non_steppable' =
          set_option(Vm, host[t].key, host[t].value).vm.code_analysis_cache_non_steppable
    /\ gen' = [gen EXCEPT !.non_steppable = @ + 1]
    /\ host' = [host EXCEPT ![t].pc = "idle"]
    /\ UNCHANGED <<observer_type, hash_cache, code_analysis_cache_steppable, vlast>>

\* C7: all state shared by calls on one VM instance is updated under mutual
\* exclusion: when set_option runs concurrently with execute or step_n calls
\* of other host threads, every such call observes each cache either
\* entirely as before or entirely as after the option change and never
\* works on a cache that is being replaced.
C7_NoCallOnReplacedCache ==
    \A t \in HostThreads :
        host[t].pc \in {"observer", "run"} =>
            /\ host[t].ref_hash = gen.hash_cache
            /\ host[t].ref_analysis = AnalysisGen(host[t].op)

----------------------------------------------------------------------------
(* Claims about the code reader.                                           *)

\* the offset a u256 names when it is an offset of the code c, else -1
OffsetIn(c, d) ==
    IF (\A i \in 2..U256Limbs : d[i] = 0) /\ d[1] < Len(c) THEN d[1] ELSE -1

\* i is an instruction start of the linear scan from offset 0, told backwards:
\* offset 0, or the offset right after the immediates of an earlier start
RECURSIVE InstrStart(_, _)
InstrStart(c, i) ==
    \/ i = 0
    \/ \E j \in 0..(i - 1) : InstrStart(c, j) /\ j + 1 + PushLen(At(c, j)) = i

\* C1: try_jump(dest) returns Ok and sets pc to dest exactly when dest is an
\* offset inside the code whose byte is classified JumpDest; in every other
\* case (Opcode, DataOrInvalid, at or past the end, not representable in 64
\* bits) it returns BadJumpDestination and leaves pc unchanged.
C1_TryJumpExactlyJumpDest ==
    [][rlast'.op = "try_jump" =>
        LET o == OffsetIn(code, rlast'.dest) IN
        IF o >= 0 /\ At(code_analysis, o) = "JumpDest"
            THEN rlast'.res = "Ok" /\ pc' = o
            ELSE rlast'.res = "BadJumpDestination" /\ pc' = pc]_vars

\* a jump from another offset to a JumpDest was taken
C1_Witness ==
    /\ rlast.op = "try_jump"
    /\ rlast.res = "Ok"
    /\ pc > 0
    /\ pc = OffsetIn(code, rlast.dest)
    /\ At(code_analysis, pc) = "JumpDest"

\* C2: offset i is classified JumpDest exactly when code[i] = 0x5B and i is
\* an instruction start of the linear scan that skips the n immediate bytes
\* after every PUSHn; a 0x5B inside a PUSH immediate (also of a truncated last
\* PUSH) is DataOrInvalid and try_jump never accepts it.
C2_JumpDestOnlyAtInstrStart ==
    /\ Len(code_analysis) = Len(code)
    /\ \A i \in 0..(Len(code) - 1) :
        /\ At(code_analysis, i) = "JumpDest"
              <=> (At(code, i) = OpJumpDest /\ InstrStart(code, i))
        /\ At(code, i) = OpJumpDest /\ ~InstrStart(code, i)
              => At(code_analysis, i) = "DataOrInvalid"
    /\ rlast.op = "try_jump"
          => LET o == OffsetIn(code, rlast.dest) IN
             o >= 0 /\ ~InstrStart(code, o) => rlast.res = "BadJumpDestination" 

\* a jump to a 0x5B that is the only immediate byte left of a truncated PUSH2
\* was tried
C2_Witness ==
    /\ rlast.op = "try_jump"
    /\ LET o == OffsetIn(code, rlast.dest) IN
        /\ o = Len(code) - 1
        /\ o >= 1
        /\ At(code, o) = OpJumpDest
        /\ At(code, o - 1) = OpPush2
        /\ InstrStart(code, o - 1)
        /\ rlast.res = "BadJumpDestination"

----------------------------------------------------------------------------
(* Claims about one Cache.                                                 *)

\* index of the last call that asked for k in the history h, 0 when none did
LastUse(h, k) ==
    IF \E i \in 1..Len(h) : h[i] = k
        THEN CHOOSE i \in 1..Len(h) : h[i] = k /\ \A j \in (i + 1)..Len(h) : h[j] # k
        ELSE 0

\* the cached key whose last use, insertion or hit, lies furthest back
LeastRecentlyUsed(c, h) ==
    CHOOSE k \in KeysOf(c) : \A j \in KeysOf(c) : LastUse(h, k) <= LastUse(h, j)

Distinct(h) == \A i, j \in 1..Len(h) : i # j => h[i] # h[j]

\* C4: after any sequence of get_or_insert calls on a Cache created with
\* capacity N >= 1, the cache holds at most N entries and its capacity is
\* still N.
C4_AtMostCapacity ==
    [][/\ cache'.cap = cache.cap
       /\ cache'.cap >= 1
       /\ Len(cache'.entries) <= cache'.cap
       /\ Cardinality(KeysOf(cache')) = Len(cache'.entries)]_vars

\* the cache is full and has evicted before
C4_Witness ==
    /\ Len(cache.entries) = cache.cap
    /\ Len(calls) > cache.cap + 1
    /\ \E k \in Keys : clast.gone[k] # <<>>

\* C5: a miss on a full cache of capacity N evicts exactly one entry, the
\* least recently used one, a hit counting as a use like an insertion; after
\* N+1 distinct keys the first key is gone and the other N are cached; asking
\* for an evicted key again runs its builder again and returns a value equal
\* to the one evicted.
C5_EvictsLeastRecentlyUsed ==
    [][calls' # calls =>
        LET k == calls'[Len(calls')] IN
        /\ (k \notin KeysOf(cache) /\ Len(cache.entries) = cache.cap) =>
              /\ ~clast'.hit
              /\ Len(cache'.entries) = cache.cap
              /\ KeysOf(cache') =
                    (KeysOf(cache) \ {LeastRecentlyUsed(cache, calls)}) \cup {k}
              /\ \A i \in 1..Len(cache'.entries) :
                    cache'.entries[i].val = Builder(cache'.entries[i].key)
              /\ clast'.ret = <<Builder(k)>>
              /\ clast.gone[k] # <<>> => clast'.ret = clast.gone[k]
        /\ (Len(calls') = cache.cap + 1 /\ Distinct(calls')) =>
              KeysOf(cache') = {calls'[i] : i \in 2..Len(calls')}]_vars

\* an evicted key was asked for again after a hit had reordered the cache
C5_Witness ==
    /\ Len(calls) > cache.cap + 2
    /\ cache.cap >= 2
    /\ ~clast.hit
    /\ clast.gone[calls[Len(calls)]] = clast.ret
    /\ \E i \in 2..(Len(calls) - 1) : \E j \in 1..(i - 2) :
          calls[i] = calls[j] /\ calls[i] # calls[i - 1]

----------------------------------------------------------------------------
(* Claims about EvmRs::set_option.                                         *)

SizeKeys == {"code-analysis-cache-size", "hash-cache-size"}

\* the option values that are unsigned integers, with the integer each denotes
UnsignedValues == {<<"0">>, <<"1">>, <<"+", "2">>}

UnsignedValueOf(str) == IF str = <<"0">> THEN 0 ELSE IF str = <<"1">> THEN 1 ELSE 2

\* the option values that are no unsigned integer (of the width of usize)
NotUnsignedValues == OptionValues \ UnsignedValues

\* C8: for every value v that parses as an unsigned integer (0 included),
\* set_option('code-analysis-cache-size', v) returns success and leaves both
\* analysis caches with capacity v, and set_option('hash-cache-size', v)
\* returns success and leaves both hash sub-caches with capacity v; hence the
\* two analysis caches always have equal capacity, and so have the two hash
\* sub-caches.
C8_SizeOptionSetsCapacity ==
    /\ code_analysis_cache_steppable.cap = code_analysis_cache_non_steppable.cap
    /\ hash_cache.hash_cache_32.cap = hash_cache.hash_cache_64.cap
    /\ (vlast.op = "set_option" /\ vlast.value \in UnsignedValues) =>
        /\ vlast.key = "code-analysis-cache-size" =>
              /\ vlast.res = "Ok"
              /\ code_analysis_cache_steppable.cap = UnsignedValueOf(vlast.value)
              /\ code_analysis_cache_non_steppable.cap = UnsignedValueOf(vlast.value)
        /\ vlast.key = "hash-cache-size" =>
              /\ vlast.res = "Ok"
              /\ hash_cache.hash_cache_32.cap = UnsignedValueOf(vlast.value)
              /\ hash_cache.hash_cache_64.cap = UnsignedValueOf(vlast.value)

\* C9: set_option with key 'code-analysis-cache-size' or 'hash-cache-size'
\* and a value that does not parse as an unsigned integer returns
\* InvalidValue and changes nothing: capacities and contents of both analysis
\* caches and of the hash cache and the observer type are as before the call.
C9_BadSizeChangesNothing ==
    [][(/\ vlast'.op = "set_option"
        /\ vlast'.key \in SizeKeys
        /\ vlast'.value \in NotUnsignedValues)
          => vlast'.res = "InvalidValue" /\ Vm' = Vm]_vars

\* a malformed size was refused on a VM whose caches were resized and filled
\* and whose observer was switched to logging
C9_Witness ==
    /\ vlast.op = "set_option"
    /\ vlast.key = "hash-cache-size"
    /\ vlast.value = <<"1", "x">>
    /\ vlast.res = "InvalidValue"
    /\ observer_type = "Logging"
    /\ hash_cache.hash_cache_32.cap = 1
    /\ hash_cache.hash_cache_32.entries # <<>>
    /\ code_analysis_cache_steppable.cap = 2
    /\ Len(code_analysis_cache_steppable.entries) = 2

\* C10: set_option with any key other than 'logging',
\* 'code-analysis-cache-size' and 'hash-cache-size', with any value, returns
\* success and leaves the whole VM state unchanged; the same holds for key
\* 'logging' with a value other than 'true' and 'false'.
C10_UnknownOptionIgnored ==
    [][(/\ vlast'.op = "set_option"
        /\ \/ vlast'.key \notin SizeKeys \cup {"logging"}
           \/ vlast'.key = "logging" /\ vlast'.value \notin {StrTrue, StrFalse})
          => vlast'.res = "Ok" /\ Vm' = Vm]_vars

\* an unknown key was accepted on a VM whose caches were resized and filled
\* and whose observer was switched to logging
C10_Witness ==
    /\ vlast.op = "set_option"
    /\ vlast.key = "key"
    /\ vlast.value = <<"1">>
    /\ vlast.res = "Ok"
    /\ observer_type = "Logging"
    /\ hash_cache.hash_cache_64.cap = 2
    /\ hash_cache.hash_cache_64.entries # <<>>
    /\ code_analysis_cache_non_steppable.cap = 1
    /\ code_analysis_cache_non_steppable.entries # <<>>

----------------------------------------------------------------------------
(* The C entry points of one VM instance (ffi/evmc_vm.rs), called by a      *)
(* host that makes one call at a time.  A C string is [null, text, raw]:    *)
(* a null pointer, or ASCII text followed by raw bytes >= 0x80.            *)

NullKey == [null |-> TRUE, text |-> "", raw |-> <<>>]
NullValue == [null |-> TRUE, text |-> <<>>, raw |-> <<>>]

\* a UTF-8 continuation byte
IsCont(b) == b >= 128 /\ b <= 191

\* the length of the sequence a non-ASCII lead byte opens, 0 for no lead byte
Utf8Width(b) ==
    IF b >= 194 /\ b <= 223 THEN 2
    ELSE IF b >= 224 /\ b <= 239 THEN 3
    ELSE IF b >= 240 /\ b <= 244 THEN 4
    ELSE 0

\* core::str::from_utf8 on bytes >= 0x80
RECURSIVE Utf8Valid(_)
Utf8Valid(raw) ==
    IF raw = <<>> THEN TRUE
    ELSE LET w == Utf8Width(raw[1]) IN
         /\ w > 0
         /\ Len(raw) >= w
         /\ \A i \in 2..w : IsCont(raw[i])
         /\ raw[1] = 224 => raw[2] >= 160
         /\ raw[1] = 237 => raw[2] <= 159
         /\ raw[1] = 240 => raw[2] >= 144
         /\ raw[1] = 244 => raw[2] <= 143
         /\ Utf8Valid(SubSeq(raw, w + 1, Len(raw)))

\* a conversion that replaces what it cannot decode instead of failing
CStrIsUtf8_Lossy(c) == TRUE

\* CStr::to_str succeeds
CStrIsUtf8(c) == Utf8Valid(c.raw)

\* the &str of a key: its text, or a key no option has when more follows
KeyStr(c) == IF c.raw = <<>> THEN c.text ELSE "non-ascii"

\* the &str of a value: its characters, the decoded tail as one more
ValueStr(c) == IF c.raw = <<>> THEN c.text ELSE Append(c.text, "U+")

\* `if !value.is_null() { CStr::from_ptr(value) } else { c"" }`
ValueOrEmpty(value) ==
    IF value.null THEN [null |-> FALSE, text |-> StrEmpty, raw |-> <<>>] ELSE value

\* __evmc_set_option: the VM it leaves, what it returns ("Panic" when it
\* unwinds), and the (key, value) that reached EvmRs::set_option, if any
evmc_set_option(vm, instance, key, value) ==
    LET early(res) == [vm |-> vm, res |-> res, reached |-> <<>>] IN
    IF instance = "null" THEN early("Panic")
    ELSE IF key.null THEN early("EVMC_SET_OPTION_INVALID_NAME")
    ELSE IF ~CStrIsUtf8(key) THEN early("EVMC_SET_OPTION_INVALID_NAME")
    ELSE LET v == ValueOrEmpty(value) IN
         IF ~CStrIsUtf8(v) THEN early("EVMC_SET_OPTION_INVALID_VALUE")
         ELSE LET r == set_option(vm, KeyStr(key), ValueStr(v)) IN
              [vm |-> r.vm,
               res |-> CASE r.res = "Ok" -> "EVMC_SET_OPTION_SUCCESS"
                         [] r.res = "InvalidKey" -> "EVMC_SET_OPTION_INVALID_NAME"
                         [] r.res = "InvalidValue" -> "EVMC_SET_OPTION_INVALID_VALUE"
                         [] OTHER -> "Panic",
               reached |-> <<[key |-> KeyStr(key), value |-> ValueStr(v)]>>]

\* the non-ASCII tails the host sends: U+00E9, the truncated F0 90 80 of the
\* tests, a lone continuation byte
RawTails == {<<195, 169>>, <<240, 144, 128>>, <<128>>}

CKeys ==
    {NullKey}
        \cup [null : {FALSE}, text : OptionKeys, raw : {<<>>}]
        \cup [null : {FALSE}, text : {"key"}, raw : RawTails]

CValues ==
    {NullValue}
        \cup [null : {FALSE}, text : {StrTrue, StrEmpty, <<"0">>, <<"1">>, <<"1", "x">>},
              raw : {<<>>}]
        \cup [null : {FALSE}, text : {StrEmpty}, raw : RawTails]

Pointers == {"null", "valid"}

\* the state before the first call and the fields every call sets
FfiNone ==
    [process |-> "running", alive |-> TRUE, op |-> "none",
     instance |-> "vm", key |-> NullKey, value |-> NullValue,
     host |-> "valid", message |-> "valid", code |-> "valid", code_size |-> 0,
     res |-> "none", reached |-> <<>>, panic |-> "none",
     callbacks |-> 0, ran |-> <<>>, result |-> <<>>]

\* evmc_create_evmrs
FfiInit == ffi = FfiNone

\* the instance pointers a host can pass: null, or the VM while it lives
Instances == {"null"} \cup (IF ffi.alive THEN {"vm"} ELSE {})

\* a panic that leaves an extern "C" function ends the process
FfiAfter(res) == IF res = "Panic" THEN "aborted" ELSE "running"

\* the host passes the instance it created: a null one fails the assert
FfiSetOption ==
    \E instance \in Instances \ {"null"}, key \in CKeys, value \in CValues :
        LET r == evmc_set_option(Vm, instance, key, value) IN
        /\ ffi.process = "running"
        /\ observer_type' = r.vm.observer_type
        /\ hash_cache' = r.vm.hash_cache
        /\ code_analysis_cache_steppable' = r.vm.code_analysis_cache_steppable
        /\ code_analysis_cache_non_steppable' = r.vm.code_analysis_cache_non_steppable
        /\ ffi' = [FfiNone EXCEPT !.alive = ffi.alive, !.op = "set_option",
                                  !.instance = instance, !.key = key, !.value = value,
                                  !.res = r.res, !.reached = r.reached,
                                  !.process = FfiAfter(r.res),
                                  !.panic = IF r.res = "Panic" THEN "uncaught" ELSE "none"]
        /\ UNCHANGED vlast

\* __evmc_get_capabilities ignores its argument
FfiGetCapabilities ==
    \E instance \in Instances :
        /\ ffi.process = "running"
        /\ ffi' = [FfiNone EXCEPT !.alive = ffi.alive, !.op = "get_capabilities",
                                  !.instance = instance, !.res = "EVMC_CAPABILITY_EVM1"]
        /\ UNCHANGED vmVars

\* __evmc_destroy drops the container unless the pointer is null
FfiDestroy ==
    \E instance \in Instances :
        /\ ffi.process = "running"
        /\ ffi' = [FfiNone EXCEPT !.alive = ffi.alive /\ instance = "null",
                                  !.op = "destroy", !.instance = instance, !.res = "void"]
        /\ UNCHANGED vmVars

\* the test at the head of __evmc_execute with the check on code_size left out
ExecuteAborts_AnyNullCode(instance, host_p, message, code_p, code_size) ==
    instance = "null" \/ host_p = "null" \/ message = "null" \/ code_p = "null"

\* the test at the head of __evmc_execute; EVMC_CAPABILITY is EVM1, so the
\* host pointer is always required
ExecuteAborts(instance, host_p, message, code_p, code_size) ==
    \/ instance = "null"
    \/ host_p = "null"
    \/ message = "null"
    \/ code_p = "null" /\ code_size # 0

\* code_ref: the empty slice for a null pointer, else code_size bytes
CodeRef(code_p, code_size, bytes) ==
    IF code_p = "null" THEN <<>> ELSE SubSeq(bytes, 1, code_size)

\* what running the interpreter can do, as far as the entry point sees it:
\* panic or return, after some host callbacks
RunOutcomes ==
    {[panics |-> FALSE, callbacks |-> 0, status |-> "EVMC_SUCCESS"],
     [panics |-> FALSE, callbacks |-> 1, status |-> "EVMC_FAILURE"],
     [panics |-> TRUE, callbacks |-> 1, status |-> "EVMC_SUCCESS"]}

\* the (code, code_size, code hash) a host passes: no code at all, a null
\* pointer with a size, or one of the codes with its hash
CodeArgs ==
    {[code |-> "null", code_size |-> 0, h |-> 1], [code |-> "null", code_size |-> 1, h |-> 1],
     [code |-> "valid", code_size |-> 0, h |-> 1]}
        \cup {[code |-> "valid", code_size |-> Len(VmCodes[h]), h |-> h] : h \in CodeHashes}

\* the result that stands in for a panic
InternalError ==
    [status_code |-> "EVMC_INTERNAL_ERROR", gas_left |-> 0, gas_refund |-> 0,
     output |-> <<>>, create_address |-> <<>>]

\* EvmRs::execute inside catch_unwind: without a context it aborts; else
\* Interpreter::new looks the analysis up when the message has a code hash
\* and the interpreter runs
execute(vm, code_ref, code_hash, context, out) ==
    IF context = <<>>
        THEN [vm |-> vm, aborted |-> TRUE, callbacks |-> 0, result |-> <<>>]
    ELSE LET c == vm.code_analysis_cache_non_steppable
             vm2 == IF code_hash = <<>> THEN vm
                    ELSE [vm EXCEPT !.code_analysis_cache_non_steppable =
                                        analysis_new(c, code_hash[1]).cache] IN
         [vm |-> vm2, aborted |-> FALSE, callbacks |-> out.callbacks,
          result |-> IF out.panics THEN <<InternalError>>
                     ELSE <<[status_code |-> out.status, gas_left |-> 1, gas_refund |-> 0,
                             output |-> <<>>, create_address |-> <<>>]>>]

\* __evmc_execute; the message carries the code hash when there is code
FfiExecute ==
    \E instance \in Instances, host_p \in Pointers, message \in Pointers,
       arg \in CodeArgs, out \in RunOutcomes :
        LET code_p == arg.code
            code_size == arg.code_size
            h == arg.h
            call == [FfiNone EXCEPT !.alive = ffi.alive, !.op = "execute",
                                    !.instance = instance, !.host = host_p,
                                    !.message = message, !.code = code_p,
                                    !.code_size = code_size] IN
        /\ ffi.process = "running"
        /\ IF ExecuteAborts(instance, host_p, message, code_p, code_size)
              THEN /\ ffi' = [call EXCEPT !.process = "aborted"]
                   /\ UNCHANGED vmVars
              ELSE LET code_ref == CodeRef(code_p, code_size, VmCodes[h])
                       code_hash == IF code_ref = VmCodes[h] THEN <<h>> ELSE <<>>
                       context == IF host_p = "null" THEN <<>> ELSE <<"context">>
                       r == execute(Vm, code_ref, code_hash, context, out) IN
                   /\ observer_type' = r.vm.observer_type
                   /\ hash_cache' = r.vm.hash_cache
                   /\ code_analysis_cache_steppable' = r.vm.code_analysis_cache_steppable
                   /\ code_analysis_cache_non_steppable' =
                          r.vm.code_analysis_cache_non_steppable
                   /\ ffi' = [call EXCEPT
                                !.process = IF r.aborted THEN "aborted" ELSE "running",
                                !.ran = IF r.aborted THEN <<>> ELSE <<code_ref>>,
                                !.callbacks = r.callbacks,
                                !.result = r.result,
                                !.res = IF r.aborted THEN "none" ELSE r.result[1].status_code,
                                !.panic = IF ~r.aborted /\ out.panics THEN "caught" ELSE "none"]
                   /\ UNCHANGED vlast

----------------------------------------------------------------------------
(* More claims about the code reader.                                      *)

\* C14: get returns OutOfRange exactly when pc is at or past the end of the
\* code, also after next() has stepped past the last cell; Invalid exactly
\* when pc is inside the code on a cell classified DataOrInvalid; otherwise
\* the opcode at pc.  get never changes pc.
C14_GetOutcomes ==
    [][rlast'.op = "get" =>
        /\ pc' = pc
        /\ rlast'.res = "OutOfRange" <=> pc >= Len(code)
        /\ rlast'.res = "Invalid"
              <=> pc < Len(code) /\ code_analysis[pc + 1] = "DataOrInvalid"
        /\ rlast'.res = "Invalid"
              <=> pc < Len(code) /\ (~InstrStart(code, pc) \/ ~IsKnownOpcode(code[pc + 1]))
        /\ rlast'.res \notin {"OutOfRange", "Invalid"}
              => rlast'.res = "Ok" /\ rlast'.ret = <<code[pc + 1]>>
        /\ rlast'.res \in {"OutOfRange", "Invalid"} => rlast'.ret = <<>>]_vars

\* get answered OutOfRange after next() had stepped past the end of a code
\* that is not empty
C14_Witness ==
    /\ rlast.op = "get"
    /\ rlast.res = "OutOfRange"
    /\ Len(code) > 0
    /\ pc = Len(code) + 1

\* byte s of the immediate counted from its low end (s = 0 is the last of the
\* N bytes), zero when the code ends before it
PushByte(c, p, N, s) ==
    IF s < N /\ p + (N - 1 - s) < Len(c) THEN c[p + (N - 1 - s) + 1] ELSE 0

\* the N bytes at p as a big-endian number, bytes past the end being zero
PaddedBigEndian(c, p, N) ==
    [i \in 1..U256Limbs |->
        PushByte(c, p, N, 2 * i - 1) * 256 + PushByte(c, p, N, 2 * i - 2)]

\* C15: for every N in 1..32 and every pc <= len(code), get_push_data<N>
\* returns the big-endian value of the N bytes code[pc..pc+N] with every
\* byte past the end of the code counted as zero, and advances pc by N even
\* when fewer than N bytes are left.
C15_PushDataZeroPadded ==
    [][rlast'.op = "get_push_data" /\ pc <= Len(code) =>
        /\ rlast'.res = "Ok"
        /\ pc' = pc + rlast'.n
        /\ rlast'.ret = PaddedBigEndian(code, pc, rlast'.n)]_vars

\* a PUSH32 immediate of which only the first byte is in the code: that byte
\* is the highest of the value, the rest is zero
C15_Witness ==
    /\ rlast.op = "get_push_data"
    /\ rlast.n = PushMaxLen
    /\ Len(code) = MaxPushCodeLen
    /\ pc = Len(code) - 1 + PushMaxLen
    /\ rlast.ret[U256Limbs] = code[Len(code)] * 256
    /\ \A i \in 1..(U256Limbs - 1) : rlast.ret[i] = 0

----------------------------------------------------------------------------
(* The reader of the rewritten flavor (fn-ptr-conversion-dispatch) next to  *)
(* the one of the classification flavor.  The rewritten analysis and its    *)
(* PcMap are not among the sources: one cell per instruction of the scan,   *)
(* a PUSHn and its immediate being one cell that carries the decoded value, *)
(* a byte that is no opcode being a cell without handler, and the cells     *)
(* saved by the immediates being given back in front of the next JUMPDEST   *)
(* as one SkipNoOps cell and its fillers, which is what lets try_jump index *)
(* the cells with an original offset (tests::code_reader_try_jump and       *)
(* tests::code_reader_pc fix this layout on their codes).  The map between  *)
(* original offsets and cell indices is the one the scan yields, the offset *)
(* at which the scan ends being that of the end index; a SkipNoOps run      *)
(* stands at the original offset of the JUMPDEST it leads to.               *)

\* the handler ids of the two cells the rewrite adds: Opcode::NoOp and
\* Opcode::SkipNoOps
OpNoOp == 12
OpSkipNoOps == 13

\* OpFnData::data: a cell without handler
data_cell(data) == [func |-> <<>>, data |-> data]

\* OpFnData::func: a cell with the handler the jump table has for op
func(op, data) == [func |-> <<op>>, data |-> data]

\* OpFnData::jump_dest
jump_dest == func(OpJumpDest, NoTarget)

\* OpFnData::skip_no_ops_iter
skip_no_ops_iter(count) ==
    <<func(OpSkipNoOps, U256Small(count))>>
        \o [k \in 1..(count - 1) |-> func(OpNoOp, NoTarget)]

\* a classification that takes every cell with a handler for a jump target
OpFnData_code_byte_type_AnyHandler(cell) ==
    IF cell.func = <<>> THEN "DataOrInvalid" ELSE "JumpDest"

\* OpFnData::code_byte_type
OpFnData_code_byte_type(cell) ==
    IF cell.func = <<>> THEN "DataOrInvalid"
    ELSE IF cell.func[1] = OpJumpDest THEN "JumpDest"
    ELSE "Opcode"

\* the decoded immediate of the PUSHn at original offset i, missing bytes zero
PushValue(c, i) == get_push_data(c, i + 1, PushLen(At(c, i))).ret

\* the cells given back in front of a JUMPDEST after no_ops saved cells
Padding(no_ops) == IF no_ops > 0 THEN skip_no_ops_iter(no_ops) ELSE <<>>

\* the rewriting scan: the cells, and the original offset of every cell
\* followed by the offset at which the scan ends
RECURSIVE RewriteFrom(_, _, _, _, _)
RewriteFrom(c, i, no_ops, cells, map) ==
    IF i >= Len(c) THEN [cells |-> cells, map |-> Append(map, i)]
    ELSE IF IsPush(At(c, i))
        THEN RewriteFrom(c, i + 1 + PushLen(At(c, i)), no_ops + PushLen(At(c, i)),
                         Append(cells, func(At(c, i), PushValue(c, i))), Append(map, i))
    ELSE IF At(c, i) = OpJumpDest
        THEN RewriteFrom(c, i + 1, 0, cells \o Padding(no_ops) \o <<jump_dest>>,
                         map \o [k \in 1..(no_ops + 1) |-> i])
    ELSE IF IsKnownOpcode(At(c, i))
        THEN RewriteFrom(c, i + 1, no_ops, Append(cells, func(At(c, i), NoTarget)),
                         Append(map, i))
    ELSE RewriteFrom(c, i + 1, no_ops, Append(cells, data_cell(NoTarget)), Append(map, i))

pc_map(c) == RewriteFrom(c, 0, 0, <<>>, <<>>).map

\* PcMap::to_ct
to_ct(map, idx) == map[idx + 1]

\* PcMap::to_converted, on the offsets the map knows: the cell of the
\* instruction at that offset
to_converted(map, orig) ==
    CHOOSE idx \in 0..(Len(map) - 1) :
        /\ map[idx + 1] = orig
        /\ \A other \in 0..(Len(map) - 1) : map[other + 1] = orig => other <= idx

\* the cells of the rewritten analysis
converted_analysis(c) == RewriteFrom(c, 0, 0, <<>>, <<>>).cells

\* a jump_to that moves on by one cell
jump_to_Next(r) == [r EXCEPT !.pc = r.pc + 1]

\* CodeReader::jump_to: the cursor moves on by the inline data of its cell
jump_to(r) == [r EXCEPT !.pc = r.pc + r.analysis[r.pc + 1].data[1]]

\* CodeReader::try_jump of the rewritten flavor: the cells are indexed with
\* dest itself, and dest is the cursor afterwards
try_jump_converted(r, dest) ==
    IF ~TryJumpFits(dest) THEN [res |-> "BadJumpDestination", r |-> r]
    ELSE IF ~(/\ InRange(r.analysis, UsizeOf(dest))
              /\ OpFnData_code_byte_type(At(r.analysis, UsizeOf(dest))) = "JumpDest")
        THEN [res |-> "BadJumpDestination", r |-> r]
    ELSE [res |-> "Ok", r |-> [r EXCEPT !.pc = UsizeOf(dest)]]

\* a pc() that hands out the cursor of the rewritten flavor as it is
reader_pc_Raw(r) == IF r.converted THEN r.pc ELSE r.pc

\* CodeReader::pc of either flavor
reader_pc(r) == IF r.converted THEN to_ct(r.pc_map, r.pc) ELSE r.pc

\* CodeReader::new of the rewritten flavor at original offset p
new_converted(c, p) ==
    [converted |-> TRUE, analysis |-> converted_analysis(c), pc_map |-> pc_map(c),
     pc |-> to_converted(pc_map(c), p)]

\* the reader of the classification flavor held in code, code_analysis, pc
Classified == [converted |-> FALSE, analysis |-> code_analysis, pc_map |-> <<>>, pc |-> pc]

\* the instruction starts of a code
Starts(c) == {i \in 0..(Len(c) - 1) : \E k \in 1..(Len(pc_map(c)) - 1) : pc_map(c)[k] = i}

\* the cursor of the rewritten reader is on a SkipNoOps cell
OnSkipNoOps(r) == InRange(r.analysis, r.pc) /\ At(r.analysis, r.pc).func = <<OpSkipNoOps>>

\* both readers are built on the same code at the same instruction start
PcInit ==
    /\ code \in Codes
    /\ code_analysis = analyze_code(code)
    /\ pc \in Starts(code)
    /\ creader = new_converted(code, pc)
    /\ rlast = [op |-> "new", dest |-> NoTarget, res |-> "Ok", at |-> pc, n |-> 0]

\* the PUSHn step of the interpreter: next and get_push_data::<n> in the
\* classification flavor, get_push_data alone in the rewritten one
PcPush ==
    LET g == get(code, code_analysis, pc) IN
    /\ g.res = "Ok"
    /\ IsPush(g.op[1])
    /\ creader.pc < Len(creader.analysis)
    /\ ~OnSkipNoOps(creader)
    /\ LET n == PushLen(g.op[1])
           r == get_push_data(code, pc + 1, n) IN
        /\ pc' = r.pc
        /\ creader' = [creader EXCEPT !.pc = creader.pc + 1]
        /\ rlast' = [op |-> "get_push_data", dest |-> NoTarget, res |-> r.res,
                     at |-> pc, n |-> n, ret |-> r.ret,
                     cret |-> creader.analysis[creader.pc + 1].data]
    /\ UNCHANGED <<code, code_analysis>>

\* the step of any other instruction that falls through: next in both
PcNext ==
    LET g == get(code, code_analysis, pc) IN
    /\ g.res = "Ok"
    /\ ~IsPush(g.op[1])
    /\ creader.pc < Len(creader.analysis)
    /\ ~OnSkipNoOps(creader)
    /\ pc' = pc + 1
    /\ creader' = [creader EXCEPT !.pc = creader.pc + 1]
    /\ rlast' = [op |-> "next", dest |-> NoTarget, res |-> "Ok", at |-> pc, n |-> 0]
    /\ UNCHANGED <<code, code_analysis>>

\* the SkipNoOps step of the rewritten flavor: jump_to on the cell the
\* cursor is on; the classification flavor has no such step
PcSkip ==
    /\ OnSkipNoOps(creader)
    /\ creader' = jump_to(creader)
    /\ rlast' = [op |-> "jump_to", dest |-> NoTarget, res |-> "Ok", at |-> creader.pc,
                 n |-> At(creader.analysis, creader.pc).data[1]]
    /\ UNCHANGED <<code, code_analysis, pc>>

\* try_jump with the same dest in both flavors
PcTryJump ==
    \E dest \in JumpTargets :
        /\ ~OnSkipNoOps(creader)
        /\ pc' = try_jump(code, code_analysis, pc, dest).pc
        /\ creader' = try_jump_converted(creader, dest).r
        /\ rlast' = [op |-> "try_jump", dest |-> dest, at |-> pc, n |-> 0,
                     res |-> try_jump(code, code_analysis, pc, dest).res,
                     cres |-> try_jump_converted(creader, dest).res]
        /\ UNCHANGED <<code, code_analysis>>

----------------------------------------------------------------------------
(* Claims about the C entry points.                                        *)

VmFieldsUnchanged ==
    UNCHANGED <<observer_type, hash_cache, code_analysis_cache_steppable,
                code_analysis_cache_non_steppable>>

\* C11: at the C entry point set_option a null key or a key that is not
\* valid UTF-8 yields INVALID_NAME, a value that is not valid UTF-8 yields
\* INVALID_VALUE, and a null value acts as the empty string; in the three
\* error cases EvmRs::set_option is not reached and the VM is unchanged.
C11_BadStringsNeverReachVm ==
    [][ffi'.op = "set_option" /\ ffi'.instance = "vm" =>
        LET k == ffi'.key
            v == ffi'.value
            keyOk == ~k.null /\ Utf8Valid(k.raw) IN
        /\ ~keyOk =>
              /\ ffi'.res = "EVMC_SET_OPTION_INVALID_NAME"
              /\ ffi'.reached = <<>>
              /\ VmFieldsUnchanged
        /\ keyOk /\ ~v.null /\ ~Utf8Valid(v.raw) =>
              /\ ffi'.res = "EVMC_SET_OPTION_INVALID_VALUE"
              /\ ffi'.reached = <<>>
              /\ VmFieldsUnchanged
        /\ keyOk /\ v.null =>
              LET r == set_option(Vm, KeyStr(k), StrEmpty) IN
              /\ ffi'.reached = <<[key |-> KeyStr(k), value |-> StrEmpty]>>
              /\ observer_type' = r.vm.observer_type
              /\ hash_cache' = r.vm.hash_cache
              /\ r.res = "Ok" <=> ffi'.res = "EVMC_SET_OPTION_SUCCESS"
              /\ r.res = "InvalidValue" <=> ffi'.res = "EVMC_SET_OPTION_INVALID_VALUE"
        /\ keyOk /\ ~v.null /\ Utf8Valid(v.raw) => ffi'.reached # <<>>]_vars

\* a size option whose value is the truncated sequence F0 90 80 was refused
\* on a VM whose hash cache had been resized before
C11_Witness ==
    /\ ffi.op = "set_option"
    /\ ffi.res = "EVMC_SET_OPTION_INVALID_VALUE"
    /\ ffi.key.text = "hash-cache-size"
    /\ ffi.value.raw = <<240, 144, 128>>
    /\ ffi.reached = <<>>
    /\ hash_cache.hash_cache_32.cap = 1

\* C12: the C entry point execute aborts the process, before any host
\* callback and before touching any cache, exactly when instance, host or
\* message is null or code is null with code_size # 0; a null code with
\* code_size 0 is executed as the empty code.
C12_ExecuteAbortsOnNullPointers ==
    [][ffi'.op = "execute" =>
        LET bad == \/ ffi'.instance = "null"
                   \/ ffi'.host = "null"
                   \/ ffi'.message = "null"
                   \/ ffi'.code = "null" /\ ffi'.code_size # 0 IN
        /\ ffi'.process = "aborted" <=> bad
        /\ bad => ffi'.callbacks = 0 /\ ffi'.ran = <<>> /\ VmFieldsUnchanged
        /\ ~bad /\ ffi'.code = "null" => ffi'.ran = << <<>> >> /\ ffi'.result # <<>>]_vars

\* a call with a null code pointer and code_size 0 ran the empty code
C12_Witness ==
    /\ ffi.op = "execute"
    /\ ffi.code = "null"
    /\ ffi.code_size = 0
    /\ ffi.process = "running"
    /\ ffi.ran = << <<>> >>
    /\ ffi.res = "EVMC_SUCCESS"

\* C13: every entry point called from C catches a panic raised while it
\* runs, so that no panic crosses the FFI boundary; execute reports the
\* panic as INTERNAL_ERROR with gas_left 0, gas_refund 0, empty output and
\* no create address.
C13_NoPanicCrossesFfi ==
    /\ ffi.panic # "uncaught"
    /\ ffi.op = "execute" /\ ffi.panic = "caught" => ffi.result = <<InternalError>>

----------------------------------------------------------------------------
(* ExecutionContext (evmc-vm/src/lib.rs): the host interface, and the       *)
(* transaction context kept after the first get_tx_context.  ctx.host_calls *)
(* lists the host callbacks made, each with what the host returned;         *)
(* ctx.host_tx is what the host would return for get_tx_context now.        *)

\* calls made on one ExecutionContext
MaxCtxCalls == 4

\* the transaction contexts a host can hand out
TxContexts == 1..3

CtxNone == [op |-> "none", res |-> "Ok", ret |-> <<>>]

\* ExecutionContext::new
CtxInit ==
    /\ ctx \in [tx_context : {<<>>}, has_get_tx_context : BOOLEAN, host_tx : TxContexts,
                host_calls : {<<>>}, calls : {0}, last : {CtxNone}]

\* a get_tx_context that asks the host every time
get_tx_context_NoCache(c) ==
    IF ~c.has_get_tx_context THEN [ctx |-> c, res |-> "Panic", ret |-> <<>>]
    ELSE [ctx |-> [c EXCEPT !.tx_context = <<c.host_tx>>,
                            !.host_calls = Append(@, [fn |-> "get_tx_context",
                                                      ret |-> c.host_tx])],
          res |-> "Ok", ret |-> <<c.host_tx>>]

\* ExecutionContext::get_tx_context: unwrap of the host's function pointer,
\* then Option::get_or_insert_with
get_tx_context(c) ==
    IF ~c.has_get_tx_context THEN [ctx |-> c, res |-> "Panic", ret |-> <<>>]
    ELSE IF c.tx_context = <<>>
        THEN [ctx |-> [c EXCEPT !.tx_context = <<c.host_tx>>,
                                !.host_calls = Append(@, [fn |-> "get_tx_context",
                                                          ret |-> c.host_tx])],
              res |-> "Ok", ret |-> <<c.host_tx>>]
    ELSE [ctx |-> c, res |-> "Ok", ret |-> c.tx_context]

CtxGetTxContext ==
    LET r == get_tx_context(ctx) IN
    /\ ctx.calls < MaxCtxCalls
    /\ ctx' = [r.ctx EXCEPT !.calls = @ + 1,
                            !.last = [op |-> "get_tx_context", res |-> r.res, ret |-> r.ret]]

\* any other callback, e.g. ExecutionContext::account_exists; while the host
\* runs, the transaction context it would report may become another one
CtxOtherCallback ==
    \E tx \in TxContexts :
        /\ ctx.calls < MaxCtxCalls
        /\ ctx' = [ctx EXCEPT !.calls = @ + 1,
                              !.host_tx = tx,
                              !.host_calls = Append(@, [fn |-> "account_exists", ret |-> 0]),
                              !.last = [op |-> "account_exists", res |-> "Ok", ret |-> <<>>]]

\* the ExecutionMessages passed to call: the message of
\* tests::test_call_empty_data, that of tests::test_call_with_data, one with
\* an empty input and other values in every field, and two with a code hash
CallMessages ==
    LET plain == [kind |-> "EVMC_CALL", flags |-> 0, depth |-> 0, gas |-> 6566,
                  recipient |-> 0, sender |-> 0, input |-> <<>>, value |-> 0,
                  create2_salt |-> 0, code_address |-> 0, code |-> <<>>,
                  code_hash |-> <<>>]
        other == [kind |-> "EVMC_CREATE2", flags |-> 1, depth |-> 3, gas |-> 0,
                  recipient |-> 2, sender |-> 3, input |-> <<<<>>>>, value |-> 5,
                  create2_salt |-> 7, code_address |-> 4, code |-> <<<<OpPush1, 0>>>>,
                  code_hash |-> <<>>]
    IN {plain,
        [plain EXCEPT !.input = <<<<192, 255, 254>>>>],
        other,
        [other EXCEPT !.code = <<<<>>>>, !.code_hash = <<11>>],
        [plain EXCEPT !.code_hash = <<11>>]}

\* Option<Vec<u8>>: .as_ref().map(Vec::as_ptr).unwrap_or(ptr::null()) and
\* .as_ref().map(Vec::len).unwrap_or_default(), with the bytes behind the
\* pointer
VecPtr(v) == IF v = <<>> THEN "null" ELSE "valid"

VecLen(v) == IF v = <<>> THEN 0 ELSE Len(v[1])

VecBytes(v) == IF v = <<>> THEN <<>> ELSE v[1]

\* the ffi::evmc_message ExecutionContext::call builds from all the fields
\* of an ExecutionMessage; a pointer to a code hash is <<h>>, a null one <<>>
evmc_message(message) ==
    [kind |-> message.kind,
     flags |-> message.flags,
     depth |-> message.depth,
     gas |-> message.gas,
     recipient |-> message.recipient,
     sender |-> message.sender,
     input_data |-> VecPtr(message.input),
     input_size |-> VecLen(message.input),
     input_bytes |-> VecBytes(message.input),
     value |-> message.value,
     create2_salt |-> message.create2_salt,
     code_address |-> message.code_address,
     code |-> VecPtr(message.code),
     code_size |-> VecLen(message.code),
     code_bytes |-> VecBytes(message.code),
     code_hash |-> <<>>]

\* ExecutionContext::call: the host's call callback is invoked with the
\* evmc_message
CtxCall ==
    \E message \in CallMessages :
        /\ ctx.calls < MaxCtxCalls
        /\ ctx' = [ctx EXCEPT !.calls = @ + 1,
                              !.host_calls = Append(@, [fn |-> "call",
                                                        ret |-> evmc_message(message)]),
                              !.last = [op |-> "call", res |-> "Ok", ret |-> <<message>>]]

\* the get_tx_context callbacks the host has seen
TxCallbacks == SelectSeq(ctx.host_calls, LAMBDA e : e.fn = "get_tx_context")

\* C17: on one ExecutionContext the host callback get_tx_context is invoked
\* at most once, by the first get_tx_context call; every later call returns
\* the value obtained then without calling the host, whatever other host
\* callbacks ran in between.
C17_TxContextFetchedOnce ==
    /\ Len(TxCallbacks) <= 1
    /\ ctx.last.op = "get_tx_context" /\ ctx.last.res = "Ok" =>
          /\ Len(TxCallbacks) = 1
          /\ ctx.last.ret = <<TxCallbacks[1].ret>>
    /\ ctx.tx_context = <<>> <=> TxCallbacks = <<>>

\* a second get_tx_context, made after another callback during which the
\* host's transaction context changed, returned the first value
C17_Witness ==
    /\ ctx.last.op = "get_tx_context"
    /\ ctx.last.res = "Ok"
    /\ Len(ctx.host_calls) = 2
    /\ ctx.host_calls[1].fn = "get_tx_context"
    /\ ctx.host_calls[2].fn = "account_exists"
    /\ ctx.calls = 3
    /\ ctx.last.ret # <<ctx.host_tx>>

----------------------------------------------------------------------------
(* impl From<ffi::evmc_result> for ExecutionResult (evmc-vm/src/lib.rs).    *)
(* conv.events lists, in order, the copy of the host's output buffer and    *)
(* the calls of the host's release callback.                                *)

\* longest output buffer of a host result
MaxOutputLen == 2

\* the results a host hands back: the output pointer may be null, the size
\* is whatever the host wrote, release may be missing
HostResults ==
    {r \in [status_code : {"EVMC_SUCCESS", "EVMC_REVERT"}, gas_left : {0, 1337},
            gas_refund : {0, 21}, output_data : {"null", "valid"},
            output_size : 0..MaxOutputLen, bytes : SeqsUpTo({222, 173}, MaxOutputLen),
            release : BOOLEAN] :
        IF r.output_data = "valid" THEN Len(r.bytes) = r.output_size ELSE r.bytes = <<>>}

\* whether the result is built: assert_eq!(result.output_size, 0) under a
\* null output pointer
FromResultPanics(result) == result.output_data = "null" /\ result.output_size # 0

\* from_buf_raw: a copy of size bytes of the host's buffer
from_buf_raw(bytes, size) == SubSeq(bytes, 1, size)

\* a conversion that releases only when it copied something
from_result_ReleaseAfterCopyOnly(result) ==
    LET some == result.output_data # "null" /\ result.output_size # 0 IN
    [res |-> IF FromResultPanics(result) THEN "Panic" ELSE "Ok",
     ret |-> [status_code |-> result.status_code, gas_left |-> result.gas_left,
              gas_refund |-> result.gas_refund,
              output |-> IF some THEN <<from_buf_raw(result.bytes, result.output_size)>>
                         ELSE <<>>,
              create_address |-> <<"create_address">>],
     events |-> IF some /\ result.release THEN <<"copy", "release">>
                ELSE IF some THEN <<"copy">> ELSE <<>>]

\* ExecutionResult::from(result): the struct is built first (output None for
\* a null pointer or size 0, else a copy), then release is called if set
from_result(result) ==
    LET some == result.output_data # "null" /\ result.output_size # 0
        ret == [status_code |-> result.status_code, gas_left |-> result.gas_left,
                gas_refund |-> result.gas_refund,
                output |-> IF some THEN <<from_buf_raw(result.bytes, result.output_size)>>
                           ELSE <<>>,
                create_address |-> <<"create_address">>]
        copied == IF some THEN <<"copy">> ELSE <<>> IN
    IF FromResultPanics(result)
        THEN [res |-> "Panic", ret |-> <<>>, events |-> <<>>]
    ELSE [res |-> "Ok", ret |-> ret,
          events |-> IF result.release THEN Append(copied, "release") ELSE copied]

ConvInit ==
    \E r \in HostResults :
        conv = [result |-> r, done |-> FALSE, res |-> "none", ret |-> <<>>, events |-> <<>>]

ConvFrom ==
    LET r == from_result(conv.result) IN
    /\ ~conv.done
    /\ conv' = [conv EXCEPT !.done = TRUE, !.res = r.res, !.ret = r.ret,
                            !.events = r.events]

\* the release calls among the events, and the place of the copy
Releases == SelectSeq(conv.events, LAMBDA e : e = "release")

\* release is called once, after the copy, if the host set it, never else
ReleasedOnceAfterCopy ==
    /\ Len(Releases) = IF conv.result.release THEN 1 ELSE 0
    /\ conv.result.release => conv.events[Len(conv.events)] = "release"

\* the owned output is the host's bytes, or absent
OwnedOutputIs(absent) ==
    /\ conv.res = "Ok"
    /\ conv.ret.output = IF absent THEN <<>> ELSE <<conv.result.bytes>>
    /\ ~absent => conv.events[1] = "copy"

\* C18: converting a host result into an owning ExecutionResult first copies
\* the output bytes and then calls the host's release callback exactly once
\* when one is provided, never when none is; the owned output equals the
\* host's bytes and is absent when the output pointer is null or the size 0.
C18_ReleaseOnceAfterCopy ==
    conv.done =>
        /\ ReleasedOnceAfterCopy
        /\ OwnedOutputIs(conv.result.output_data = "null" \/ conv.result.output_size = 0)

\* C18 as amended: the same, for every result whose null output pointer
\* comes with size 0; a null pointer with another size fails the assertion
\* of the conversion, which panics before release is called.
C18_ReleaseOnceUnlessAssertFails ==
    conv.done =>
        IF conv.result.output_data = "null" /\ conv.result.output_size # 0
            THEN conv.res = "Panic" /\ conv.events = <<>>
            ELSE /\ ReleasedOnceAfterCopy
                 /\ OwnedOutputIs(conv.result.output_data = "null"
                                    \/ conv.result.output_size = 0)

\* a two-byte output was copied and then released
C18_Witness ==
    /\ conv.done
    /\ conv.res = "Ok"
    /\ conv.result.output_size = 2
    /\ conv.ret.output = <<conv.result.bytes>>
    /\ conv.events = <<"copy", "release">>

----------------------------------------------------------------------------
(* impl From<ExecutionResult> for ffi::evmc_result (evmc-vm/src/lib.rs),    *)
(* and the way back.  conv.allocs and conv.frees count the calls of         *)
(* std::alloc::alloc and std::alloc::dealloc for the output buffer of the   *)
(* C result, conv.releases the calls of its release callback.               *)

\* the ExecutionResults converted: output absent, empty, or some bytes
ResultValues ==
    [status_code : {"EVMC_SUCCESS", "EVMC_FAILURE"}, gas_left : {0, 420},
     gas_refund : {0, 21},
     output : {<<>>} \cup {<<b>> : b \in SeqsUpTo({192, 255}, MaxOutputLen)},
     create_address : {<<>>, <<"create_address">>}]

\* an allocation for every output that is present, the empty one too
allocate_output_data_EmptyAllocates(output) ==
    IF output # <<>>
        THEN [ptr |-> "valid", len |-> Len(output[1]), bytes |-> output[1], allocs |-> 1]
    ELSE [ptr |-> "null", len |-> 0, bytes |-> <<>>, allocs |-> 0]

\* allocate_output_data: a new buffer with a copy of a non-empty output
allocate_output_data(output) ==
    IF output # <<>> /\ output[1] # <<>>
        THEN [ptr |-> "valid", len |-> Len(output[1]), bytes |-> output[1], allocs |-> 1]
    ELSE [ptr |-> "null", len |-> 0, bytes |-> <<>>, allocs |-> 0]

\* deallocate_output_data: the number of buffers it frees
deallocate_output_data(ptr, size) == IF ptr # "null" THEN 1 ELSE 0

\* ffi::evmc_result::from(value)
into_result(value) ==
    [status_code |-> value.status_code,
     gas_left |-> value.gas_left,
     gas_refund |-> value.gas_refund,
     output_data |-> allocate_output_data(value.output).ptr,
     output_size |-> allocate_output_data(value.output).len,
     bytes |-> allocate_output_data(value.output).bytes,
     release |-> TRUE,
     create_address |-> IF value.create_address = <<>> THEN "default" ELSE value.create_address[1]]

\* release_stack_result: the number of buffers it frees
release_stack_result(result) == deallocate_output_data(result.output_data, result.output_size)

IntoInit ==
    \E value \in ResultValues :
        conv = [value |-> value, stage |-> "value", result |-> <<>>, res |-> "none",
                ret |-> <<>>, events |-> <<>>, allocs |-> 0, frees |-> 0, releases |-> 0]

\* the VM converts its result for the host
IntoFfi ==
    /\ conv.stage = "value"
    /\ conv' = [conv EXCEPT !.stage = "ffi", !.result = into_result(conv.value),
                            !.allocs = allocate_output_data(conv.value.output).allocs]

\* the host is done with the result and calls its release callback
IntoRelease ==
    /\ conv.stage = "ffi"
    /\ conv.result.release
    /\ conv' = [conv EXCEPT !.stage = "released", !.releases = @ + 1,
                            !.frees = @ + release_stack_result(conv.result)]

\* the result is converted back: ExecutionResult::from copies the output
\* and calls the release callback of the C result
IntoBack ==
    /\ conv.stage = "ffi"
    /\ conv' = [conv EXCEPT
            !.stage = "back",
            !.res = from_result(conv.result).res,
            !.ret = from_result(conv.result).ret,
            !.events = from_result(conv.result).events,
            !.releases = @ + Len(SelectSeq(from_result(conv.result).events,
                                           LAMBDA e : e = "release")),
            !.frees = @ + Len(SelectSeq(from_result(conv.result).events,
                                        LAMBDA e : e = "release"))
                            * release_stack_result(conv.result)]

----------------------------------------------------------------------------
(* EvmRs::step_n (evmrs.rs).  The interpreter is not among the sources: the *)
(* step loop is the one of the specification (section 4.8) over the codes   *)
(* below, whose opcodes are STOP, ADD, ORIGIN, JUMPDEST and PUSH1.          *)
(* Stack words stay far below 2^256, so ADD never wraps here.               *)

\* largest step budget handed to step_n
MaxSteps == 3

\* step_n calls made on a frame after it has ended
MaxAgain == 2

\* most CodeReader::new calls made on one analysis cache
MaxNewRd == 3

\* most execute calls made on one VM
MaxExec == 2

OpStop == 0
OpOrigin == 50
OpPop == 80
OpMLoad == 81
OpMStore == 82
OpSStore == 85
OpTStore == 93
OpJump == 86
OpJumpI == 87

OpKeccak256 == 32
OpDup1 == 128
OpLog0 == 160
OpCall == 241
OpCallCode == 242
OpReturn == 243
OpDelegateCall == 244
OpStaticCall == 250
OpRevert == 253
OpSelfDestruct == 255

\* the codes stepped through, by code hash
StepCodes ==
    <<<<OpPush1, 2, OpPush1, 3, OpAdd, OpStop>>,
      <<OpJumpDest, OpOrigin, OpAdd>>,
      <<OpPush1, ByteInvalidC0, ByteInvalidC0>>,
      <<OpPush1, 1, OpPush1, 0, OpReturn>>>>

StepCodeHashes == 1..Len(StepCodes)

\* the codes run step by step: a loop; memory accesses; the side effects a
\* host sees, with a CALL that sends a value; calls that ask for more gas
\* than may be forwarded; a stack that grows; a jump into push data
RunCodes ==
    <<<<OpJumpDest, OpPush1, 1, OpPush1, 0, OpJumpI>>,
      <<OpPush1, 7, OpPush1, 255, OpMStore, OpPush1, 32, OpMLoad, OpPop,
        OpPush1, 0, OpPush1, 200, OpReturn>>,
      <<OpPush1, 1, OpPush1, 2, OpSStore, OpPush1, 0, OpPush1, 255, OpLog0,
        OpPush1, 1, OpPush1, 0, OpPush1, 0, OpPush1, 0, OpPush1, 5, OpPush1, 9,
        OpPush1, 200, OpCall, OpPush1, 3, OpPush1, 4, OpTStore, OpPush1, 9,
        OpSelfDestruct>>,
      <<OpPush1, 0, OpPush1, 0, OpPush1, 0, OpPush1, 0, OpPush1, 9, OpPush1, 255,
        OpStaticCall, OpPush1, 2, OpPush1, 0, OpPush1, 0, OpPush1, 0, OpPush1, 1,
        OpPush1, 9, OpPush1, 255, OpCallCode, OpPush1, 0, OpPush1, 0, OpPush1, 0,
        OpPush1, 0, OpPush1, 9, OpPush1, 20, OpDelegateCall, OpPush1, 2, OpPush1, 0,
        OpRevert>>,
      <<OpDup1, OpDup1, OpAdd, OpPush1, 1, OpJump>>>>

FrameCodes == StepCodes \o RunCodes

RunCodeHashes == (Len(StepCodes) + 1)..Len(FrameCodes)

\* the analysis CodeAnalysis::new yields for each of them
StepAnalyses == [h \in 1..Len(FrameCodes) |-> analyze_code(FrameCodes[h])]

\* what ORIGIN pushes: the origin of the host's transaction context
TxOrigin == 9

\* the words a stack holds at most
StackLimit == 1024

\* the stipend a CALL with a value adds to the gas of the callee
CallStipend == 2300

\* the cost of sending a value with a call
CallValueCost == 9000

CallOps == {OpCall, OpCallCode, OpDelegateCall, OpStaticCall}

\* a gas schedule in which jumping costs nothing
StaticGas_FreeJumps(op) ==
    IF op \in {OpJumpDest, OpPush1, OpJump, OpJumpI, OpStop, OpReturn, OpRevert} THEN 0 ELSE 3

\* the static gas of an opcode
StaticGas(op) ==
    CASE op = OpStop -> 0
      [] op = OpJumpDest -> 1
      [] op \in {OpOrigin, OpPop} -> 2
      [] op = OpJump -> 8
      [] op = OpJumpI -> 10
      [] op = OpKeccak256 -> 30
      [] op \in {OpSStore, OpTStore} \cup CallOps -> 100
      [] op = OpSelfDestruct -> 5000
      [] op = OpLog0 -> 375
      [] op \in {OpReturn, OpRevert} -> 0
      [] OTHER -> 3

\* the operands an opcode takes from the stack and the words it puts back
Operands(op) ==
    CASE op \in {OpAdd, OpMStore, OpSStore, OpTStore, OpJumpI, OpLog0, OpReturn, OpRevert,
                 OpKeccak256} -> 2
      [] op \in {OpPop, OpMLoad, OpJump, OpDup1, OpSelfDestruct} -> 1
      [] op \in {OpCall, OpCallCode} -> 7
      [] op \in {OpDelegateCall, OpStaticCall} -> 6
      [] OTHER -> 0

Results(op) ==
    CASE op \in {OpAdd, OpMLoad, OpOrigin, OpPush1, OpKeccak256} \cup CallOps -> 1
      [] op = OpDup1 -> 2
      [] OTHER -> 0

\* a failure that leaves the frame its gas and its refund
Fail_KeepsGas(s, kind) == [s EXCEPT !.status = "Failed", !.kind = kind]

\* a failure ends the frame: the gas is gone and the refund is discarded
Fail(s, kind) ==
    [s EXCEPT !.status = "Failed", !.kind = kind, !.gas_left = 0, !.gas_refund = 0]

Zeros(n) == [i \in 1..n |-> 0]

Ceil32(n) == ((n + 31) \div 32) * 32

\* the gas a memory of len bytes has cost
MemoryCost(len) == LET w == len \div 32 IN 3 * w + (w * w) \div 512

\* a length that counts an access of length 0 like any other
SizeAfter_ZeroLenExpands(memory, offset, len) ==
    IF Ceil32(offset + len) <= Len(memory) THEN Len(memory) ELSE Ceil32(offset + len)

\* the length of the memory after an access of len bytes at offset: an
\* access of length 0 asks for nothing
SizeAfter(memory, offset, len) ==
    IF len = 0 \/ Ceil32(offset + len) <= Len(memory) THEN Len(memory)
    ELSE Ceil32(offset + len)

ExpansionCost(memory, offset, len) ==
    MemoryCost(SizeAfter(memory, offset, len)) - MemoryCost(Len(memory))

\* the memory grown with zero bytes for the access
Expanded(memory, offset, len) ==
    memory \o Zeros(SizeAfter(memory, offset, len) - Len(memory))

\* the 32 bytes of a word, big-endian (the words of the model fit 3 bytes)
WordBytes(v) == Zeros(29) \o <<(v \div 65536) % 256, (v \div 256) % 256, v % 256>>

WordOf(bytes) == bytes[30] * 65536 + bytes[31] * 256 + bytes[32]

\* memory with the bytes written at offset (which the memory covers)
Written(memory, offset, bytes) ==
    [i \in 1..Len(memory) |->
        IF i > offset /\ i <= offset + Len(bytes) THEN bytes[i - offset] ELSE memory[i]]

Slice(memory, offset, len) == IF len = 0 THEN <<>> ELSE SubSeq(memory, offset + 1, offset + len)

Least(a, b) == IF a < b THEN a ELSE b

\* the i-th word from the top of the stack, and the stack without its top n
Peek(s, i) == s.stack[Len(s.stack) - i + 1]

Popped(s, n) == SubSeq(s.stack, 1, Len(s.stack) - n)

----------------------------------------------------------------------------
(* The execution context of the frame: the wrappers of evmc-vm/src/lib.rs  *)
(* hand each callback to the host, which sees them in the order made.      *)

\* a wrapper that keeps the write to itself
context_set_storage_Dropped(seen, key, value) == seen

\* ExecutionContext::set_storage
context_set_storage(seen, key, value) ==
    Append(seen, [op |-> "set_storage", key |-> key, value |-> value])

\* ExecutionContext::set_transient_storage
context_set_transient_storage(seen, key, value) ==
    Append(seen, [op |-> "set_transient_storage", key |-> key, value |-> value])

\* ExecutionContext::emit_log
context_emit_log(seen, data) == Append(seen, [op |-> "emit_log", data |-> data])

\* ExecutionContext::selfdestruct
context_selfdestruct(seen, beneficiary) ==
    Append(seen, [op |-> "selfdestruct", beneficiary |-> beneficiary])

\* the evmc_result a host answers a call with: it spends some of the gas it
\* was given, and a failed call hands back neither gas nor refund
HostAnswer(message, answer) ==
    LET failed == answer.status_code \notin {"EVMC_SUCCESS", "EVMC_REVERT"} IN
    [status_code |-> answer.status_code,
     gas_left |-> IF failed THEN 0 ELSE message.gas - Least(answer.spent, message.gas),
     gas_refund |-> IF answer.status_code = "EVMC_SUCCESS" THEN answer.refund ELSE 0,
     output_data |-> IF answer.bytes = <<>> THEN "null" ELSE "valid",
     output_size |-> Len(answer.bytes), bytes |-> answer.bytes, release |-> TRUE]

\* a wrapper that hands the host a message without the gas
FfiMessage_NoGas(message) == [message EXCEPT !.gas = 0]

\* the evmc_message ExecutionContext::call builds, on the fields the
\* messages of the step loop carry: each as given (evmc_message has all)
FfiMessage(message) == message

\* ExecutionContext::call: the host sees the message, resolves the call and
\* its evmc_result is converted into an ExecutionResult
context_call(seen, message, answer) ==
    LET sent == FfiMessage(message)
        r == from_result(HostAnswer(sent, answer)) IN
    [seen |-> seen \o <<[op |-> "call", message |-> sent],
                        [op |-> "call_result", events |-> r.events]>>,
     result |-> r.ret]

----------------------------------------------------------------------------
(* The step loop.                                                          *)

\* the frame with its memory grown for an access, or out of gas
Grown(s, offset, len) ==
    LET cost == ExpansionCost(s.memory, offset, len) IN
    IF cost > s.gas_left THEN Fail(s, "OutOfGas")
    ELSE [s EXCEPT !.gas_left = @ - cost, !.memory = Expanded(@, offset, len)]

\* the gas a call forwards: all but one 64th of what is left, at most
ForwardedGas(requested, gas_left) == Least(requested, gas_left - gas_left \div 64)

\* the stipend a call adds to what it forwards
Stipend(op, value) == IF op = OpCall /\ value # 0 THEN CallStipend ELSE 0

\* the answer the host gives to the next call of the frame
NextAnswer(s) ==
    IF s.answers = <<>>
        THEN [status_code |-> "EVMC_SUCCESS", spent |-> 0, refund |-> 0, bytes |-> <<>>]
        ELSE Head(s.answers)

\* whether the call opcode has a value operand, and where its operands are
HasValue(op) == op \in {OpCall, OpCallCode}

CallValue(op, s) == IF HasValue(op) THEN Peek(s, 3) ELSE 0

ArgsOffset(op, s) == Peek(s, IF HasValue(op) THEN 4 ELSE 3)

ArgsLen(op, s) == Peek(s, IF HasValue(op) THEN 5 ELSE 4)

RetOffset(op, s) == Peek(s, IF HasValue(op) THEN 6 ELSE 5)

RetLen(op, s) == Peek(s, IF HasValue(op) THEN 7 ELSE 6)

ValueCost(op, s) == IF CallValue(op, s) # 0 THEN CallValueCost ELSE 0

\* the message of the call: the callee gets what is forwarded and the stipend
CallMessage(op, s, b, forwarded) ==
    [kind |-> op, gas |-> forwarded + Stipend(op, CallValue(op, s)),
     recipient |-> Peek(s, 2), value |-> CallValue(op, s),
     input |-> Slice(b.memory, ArgsOffset(op, s), ArgsLen(op, s))]

\* the bytes the callee returned, and those of them written to memory
ReturnedBytes(result) == IF result.output = <<>> THEN <<>> ELSE result.output[1]

KeptBytes(out, len) == SubSeq(out, 1, Least(Len(out), len))

\* the frame b after the call came back with r: the gas not forwarded plus
\* the gas the callee left, its refund, its output, and 1 or 0 on the stack
CallEnd(op, s, b, left, forwarded, message, r) ==
    [b EXCEPT !.pc = @ + 1,
              !.gas_left = left - forwarded + r.result.gas_left,
              !.gas_refund = @ + r.result.gas_refund,
              !.stack = Append(Popped(s, Operands(op)),
                               IF r.result.status_code = "EVMC_SUCCESS" THEN 1 ELSE 0),
              !.memory = Written(@, RetOffset(op, s),
                                 KeptBytes(ReturnedBytes(r.result), RetLen(op, s))),
              !.last_call_return_data = ReturnedBytes(r.result),
              !.seen = r.seen,
              !.answers = IF @ = <<>> THEN @ ELSE Tail(@),
              !.callbacks = @ + 1,
              !.calls = Append(@, [op |-> op, value |-> CallValue(op, s),
                                   requested |-> Peek(s, 1), before |-> left,
                                   forwarded |-> forwarded, message |-> message,
                                   back |-> r.result.gas_left])]

CallSent(op, s, b, left, forwarded, message) ==
    CallEnd(op, s, b, left, forwarded, message,
            context_call(s.seen, message, NextAnswer(s)))

CallForwarded(op, s, b, left, forwarded) ==
    CallSent(op, s, b, left, forwarded, CallMessage(op, s, b, forwarded))

\* the call once the memory b is grown: the value is paid for, then the gas
\* to forward is taken from what is left
CallCharged(op, s, b) ==
    IF b.status # "Running" THEN Fail(s, "OutOfGas")
    ELSE IF b.gas_left < ValueCost(op, s) THEN Fail(s, "OutOfGas")
    ELSE CallForwarded(op, s, b, b.gas_left - ValueCost(op, s),
                       ForwardedGas(Peek(s, 1), b.gas_left - ValueCost(op, s)))

GrownAgain(a, offset, len) == IF a.status = "Running" THEN Grown(a, offset, len) ELSE a

\* CALL, CALLCODE, DELEGATECALL and STATICCALL, the static gas paid: the
\* memory grows for the arguments and for the returned bytes
DoCall(op, s) ==
    CallCharged(op, s, GrownAgain(Grown(s, ArgsOffset(op, s), ArgsLen(op, s)),
                                  RetOffset(op, s), RetLen(op, s)))

\* KECCAK256: the digest r the VM's hash cache handed out is pushed, and the
\* frame goes on with the cache as the lookup left it
Hashed(s, m, r) ==
    [m EXCEPT !.pc = @ + 1, !.stack = Append(Popped(s, 2), r.ret),
              !.hash_cache = r.hash_cache]

\* the effect of an opcode whose static gas is paid and whose operands are
\* on the stack
Effect(c, analysis, op, s) ==
    CASE op = OpStop -> [s EXCEPT !.status = "Stopped"]
      [] op = OpJumpDest -> [s EXCEPT !.pc = @ + 1]
      [] op = OpAdd ->
            [s EXCEPT !.pc = @ + 1, !.stack = Append(Popped(s, 2), Peek(s, 1) + Peek(s, 2))]
      [] op = OpOrigin ->
            [s EXCEPT !.pc = @ + 1, !.stack = Append(@, TxOrigin), !.callbacks = @ + 1]
      [] op = OpPop -> [s EXCEPT !.pc = @ + 1, !.stack = Popped(s, 1)]
      [] op = OpDup1 -> [s EXCEPT !.pc = @ + 1, !.stack = Append(@, Peek(s, 1))]
      [] op = OpPush1 ->
            [s EXCEPT !.pc = @ + 2,
                      !.stack = Append(@, get_push_data(c, s.pc + 1, 1).ret[1])]
      [] op = OpMLoad ->
            LET m == Grown(s, Peek(s, 1), 32) IN
            IF m.status # "Running" THEN m
            ELSE [m EXCEPT !.pc = @ + 1,
                           !.stack = Append(Popped(s, 1),
                                            WordOf(Slice(m.memory, Peek(s, 1), 32)))]
      [] op = OpMStore ->
            LET m == Grown(s, Peek(s, 1), 32) IN
            IF m.status # "Running" THEN m
            ELSE [m EXCEPT !.pc = @ + 1, !.stack = Popped(s, 2),
                           !.memory = Written(@, Peek(s, 1), WordBytes(Peek(s, 2)))]
      [] op = OpSStore ->
            [s EXCEPT !.pc = @ + 1, !.stack = Popped(s, 2), !.callbacks = @ + 1,
                      !.seen = context_set_storage(@, Peek(s, 1), Peek(s, 2))]
      [] op = OpTStore ->
            [s EXCEPT !.pc = @ + 1, !.stack = Popped(s, 2), !.callbacks = @ + 1,
                      !.seen = context_set_transient_storage(@, Peek(s, 1), Peek(s, 2))]
      [] op = OpSelfDestruct ->
            [s EXCEPT !.status = "Stopped", !.stack = Popped(s, 1), !.callbacks = @ + 1,
                      !.seen = context_selfdestruct(@, Peek(s, 1))]
      [] op = OpJump ->
            LET j == try_jump(c, analysis, s.pc, U256Small(Peek(s, 1))) IN
            IF j.res # "Ok" THEN Fail(s, "BadJumpDestination")
            ELSE [s EXCEPT !.pc = j.pc, !.stack = Popped(s, 1)]
      [] op = OpJumpI ->
            LET j == try_jump(c, analysis, s.pc, U256Small(Peek(s, 1))) IN
            IF Peek(s, 2) = 0 THEN [s EXCEPT !.pc = @ + 1, !.stack = Popped(s, 2)]
            ELSE IF j.res # "Ok" THEN Fail(s, "BadJumpDestination")
            ELSE [s EXCEPT !.pc = j.pc, !.stack = Popped(s, 2)]
      [] op = OpLog0 ->
            LET m == Grown(s, Peek(s, 1), Peek(s, 2))
                bytes == 8 * Peek(s, 2) IN
            IF m.status # "Running" THEN m
            ELSE IF m.gas_left < bytes THEN Fail(s, "OutOfGas")
            ELSE [m EXCEPT !.pc = @ + 1, !.gas_left = @ - bytes, !.stack = Popped(s, 2),
                           !.callbacks = @ + 1,
                           !.seen = context_emit_log(@, Slice(m.memory, Peek(s, 1),
                                                              Peek(s, 2)))]
      [] op = OpKeccak256 ->
            LET m == Grown(s, Peek(s, 1), Peek(s, 2))
                words == 6 * (Ceil32(Peek(s, 2)) \div 32) IN
            IF m.status # "Running" THEN m
            ELSE IF m.gas_left < words THEN Fail(s, "OutOfGas")
            ELSE Hashed(s, [m EXCEPT !.gas_left = @ - words],
                        hash(m.hash_cache, Slice(m.memory, Peek(s, 1), Peek(s, 2))))
      [] op \in {OpReturn, OpRevert} ->
            LET m == Grown(s, Peek(s, 1), Peek(s, 2)) IN
            IF m.status # "Running" THEN m
            ELSE [m EXCEPT !.status = IF op = OpReturn THEN "Returned" ELSE "Reverted",
                           !.gas_refund = IF op = OpReturn THEN @ ELSE 0,
                           !.stack = Popped(s, 2),
                           !.output = Slice(m.memory, Peek(s, 1), Peek(s, 2))]
      [] op \in CallOps -> DoCall(op, s)
      [] OTHER -> Fail(s, "InvalidInstruction")

\* tests that let an opcode push onto a full stack
Checked_NoOverflow(op, s) ==
    IF s.gas_left < StaticGas(op) THEN "OutOfGas"
    ELSE IF Len(s.stack) < Operands(op) THEN "StackUnderflow"
    ELSE "Ok"

\* the order of the tests before the effect of an opcode
Checked(op, s) ==
    IF s.gas_left < StaticGas(op) THEN "OutOfGas"
    ELSE IF Len(s.stack) < Operands(op) THEN "StackUnderflow"
    ELSE IF Len(s.stack) - Operands(op) + Results(op) > StackLimit THEN "StackOverflow"
    ELSE "Ok"

\* one iteration of the step loop of a reader on the code c that works with
\* the given analysis
StepWith(c, analysis, s) ==
    LET g == get(c, analysis, s.pc) IN
    IF g.res = "OutOfRange" THEN [s EXCEPT !.status = "Stopped"]
    ELSE IF g.res = "Invalid" THEN Fail(s, "InvalidInstruction")
    ELSE LET op == g.op[1] IN
         IF Checked(op, s) # "Ok" THEN Fail(s, Checked(op, s))
         ELSE Effect(c, analysis, op, [s EXCEPT !.gas_left = @ - StaticGas(op)])

\* one iteration of the step loop on the code with the hash h
Step(h, s) == StepWith(FrameCodes[h], StepAnalyses[h], s)

\* the element of a set of one (the frame after a step is worked out once
\* and then handed on)
TheOne(S) == CHOOSE x \in S : TRUE

\* Interpreter::run with the budget Some(steps), or None for no budget
RECURSIVE RunWith(_, _, _, _)
RunWith(c, analysis, s, budget) ==
    IF s.status # "Running" \/ budget = <<0>> THEN s
    ELSE TheOne({RunWith(c, analysis, [t EXCEPT !.iterations = @ + 1],
                         IF budget = <<>> THEN budget ELSE <<budget[1] - 1>>) :
                    t \in {StepWith(c, analysis, s)}})

Run(h, s, budget) == RunWith(FrameCodes[h], StepAnalyses[h], s, budget)

\* a mapping that reports a failed frame as a success
StepStatusToStatus_FailedSucceeds(step_status_code) ==
    IF step_status_code = "EVMC_STEP_REVERTED" THEN "EVMC_REVERT" ELSE "EVMC_SUCCESS"

\* a mapping that reports a revert as a failure
StepStatusToStatus_RevertFails(step_status_code) ==
    IF step_status_code \in {"EVMC_STEP_RUNNING", "EVMC_STEP_STOPPED", "EVMC_STEP_RETURNED"}
        THEN "EVMC_SUCCESS"
        ELSE "EVMC_FAILURE"

\* the match on step_status_code in the early return of step_n
StepStatusToStatus(step_status_code) ==
    IF step_status_code \in {"EVMC_STEP_RUNNING", "EVMC_STEP_STOPPED", "EVMC_STEP_RETURNED"}
        THEN "EVMC_SUCCESS"
    ELSE IF step_status_code = "EVMC_STEP_REVERTED" THEN "EVMC_REVERT"
    ELSE "EVMC_FAILURE"

\* a step_n that hands the interpreter no budget
StepBudget_None(steps) == <<>>

\* the argument Some(steps) of Interpreter::new_steppable
StepBudget(steps) == <<steps>>

\* the step status and status code of a frame status
StepStatusOf(status) ==
    CASE status = "Running" -> "EVMC_STEP_RUNNING"
      [] status = "Stopped" -> "EVMC_STEP_STOPPED"
      [] status = "Returned" -> "EVMC_STEP_RETURNED"
      [] status = "Reverted" -> "EVMC_STEP_REVERTED"
      [] OTHER -> "EVMC_STEP_FAILED"

\* the EVMC status code of a frame that has ended
StatusCodeOf(status, kind) ==
    CASE status \in {"Running", "Stopped", "Returned"} -> "EVMC_SUCCESS"
      [] status = "Reverted" -> "EVMC_REVERT"
      [] kind = "OutOfGas" -> "EVMC_OUT_OF_GAS"
      [] kind = "StackUnderflow" -> "EVMC_STACK_UNDERFLOW"
      [] kind = "StackOverflow" -> "EVMC_STACK_OVERFLOW"
      [] kind = "InvalidInstruction" -> "EVMC_INVALID_INSTRUCTION"
      [] kind = "BadJumpDestination" -> "EVMC_BAD_JUMP_DESTINATION"
      [] OTHER -> "EVMC_FAILURE"

\* the frame Interpreter::new_steppable starts from: pc, gas_refund, stack,
\* memory and last_call_return_data as the host supplied them, the gas of
\* the message
new_steppable(a) ==
    [pc |-> a.pc, gas_left |-> a.gas, gas_refund |-> a.gas_refund,
     stack |-> a.stack, memory |-> a.memory,
     last_call_return_data |-> a.last_call_return_data,
     status |-> "Running", kind |-> "", output |-> <<>>, iterations |-> 0,
     callbacks |-> 0, seen |-> <<>>, answers |-> <<>>, calls |-> <<>>]

\* what step_n returns when the interpreter has run the frame to s: the
\* analysis went through the steppable cache
StepRan(vm, a, s) ==
    [vm |-> [vm EXCEPT !.code_analysis_cache_steppable =
                           get_or_insert(@, a.h, StepAnalyses[a.h]).cache],
     aborted |-> FALSE, iterations |-> s.iterations, callbacks |-> s.callbacks,
     result |-> <<[step_status_code |-> StepStatusOf(s.status),
                   status_code |-> StatusCodeOf(s.status, s.kind),
                   pc |-> s.pc, gas_left |-> s.gas_left,
                   gas_refund |-> s.gas_refund, output |-> s.output,
                   stack |-> s.stack, memory |-> s.memory,
                   last_call_return_data |-> s.last_call_return_data]>>]

\* a step_n that enters the interpreter whatever the step status is
step_n_AlwaysRuns(vm, a) ==
    StepRan(vm, a, Run(a.h, new_steppable(a), StepBudget(a.steps)))

\* EvmRs::step_n: the VM it leaves, whether it aborted, the StepResult, and
\* the iterations and host callbacks of the run
step_n(vm, a) ==
    IF a.step_status_code # "EVMC_STEP_RUNNING"
        THEN [vm |-> vm, aborted |-> FALSE, iterations |-> 0, callbacks |-> 0,
              result |-> <<[step_status_code |-> a.step_status_code,
                            status_code |-> StepStatusToStatus(a.step_status_code),
                            pc |-> a.pc, gas_left |-> a.gas_refund,
                            gas_refund |-> a.gas_refund, output |-> <<>>,
                            stack |-> a.stack, memory |-> a.memory,
                            last_call_return_data |-> a.last_call_return_data]>>]
    ELSE IF ~a.context
        THEN [vm |-> vm, aborted |-> TRUE, iterations |-> 0, callbacks |-> 0,
              result |-> <<>>]
    ELSE StepRan(vm, a, Run(a.h, new_steppable(a), StepBudget(a.steps)))

StepStatuses ==
    {"EVMC_STEP_RUNNING", "EVMC_STEP_STOPPED", "EVMC_STEP_RETURNED", "EVMC_STEP_REVERTED",
     "EVMC_STEP_FAILED"}

\* the frames a host starts from: a new one and one saved in mid-run
StepFrames ==
    {[pc |-> 0, gas_refund |-> 0, stack |-> <<>>, memory |-> <<>>,
      last_call_return_data |-> <<>>],
     [pc |-> 2, gas_refund |-> 5, stack |-> <<1, 2>>, memory |-> WordBytes(8),
      last_call_return_data |-> <<7>>]}

StepArgs ==
    {[step_status_code |-> st, h |-> h, pc |-> f.pc, gas |-> gas,
      gas_refund |-> f.gas_refund, stack |-> f.stack, memory |-> f.memory,
      last_call_return_data |-> f.last_call_return_data, steps |-> k, context |-> TRUE] :
        st \in {"EVMC_STEP_RUNNING"}, h \in StepCodeHashes, f \in StepFrames,
        gas \in {4, 100}, k \in 0..MaxSteps}
    \cup
    {[step_status_code |-> st, h |-> 1, pc |-> f.pc, gas |-> 100,
      gas_refund |-> f.gas_refund, stack |-> f.stack, memory |-> f.memory,
      last_call_return_data |-> f.last_call_return_data, steps |-> 1, context |-> cx] :
        st \in StepStatuses, f \in StepFrames, cx \in BOOLEAN}

FrameNone ==
    [op |-> "none", args |-> <<>>, aborted |-> FALSE, iterations |-> 0, callbacks |-> 0,
     result |-> <<>>]

FrameInit == frame = FrameNone

\* the arguments with which a host resumes the frame it was handed back
ResumeArgs ==
    IF frame.result = <<>> THEN {}
    ELSE LET r == frame.result[1] IN
         {[frame.args EXCEPT !.step_status_code = r.step_status_code, !.pc = r.pc,
                             !.gas = r.gas_left, !.gas_refund = r.gas_refund,
                             !.stack = r.stack, !.memory = r.memory,
                             !.last_call_return_data = r.last_call_return_data,
                             !.steps = k] : k \in 0..MaxSteps}

StepCalled(a, r) ==
    /\ ~frame.aborted
    /\ observer_type' = r.vm.observer_type
    /\ hash_cache' = r.vm.hash_cache
    /\ code_analysis_cache_steppable' = r.vm.code_analysis_cache_steppable
    /\ code_analysis_cache_non_steppable' = r.vm.code_analysis_cache_non_steppable
    /\ frame' = [op |-> "step_n", args |-> a, aborted |-> r.aborted,
                 iterations |-> r.iterations, callbacks |-> r.callbacks,
                 result |-> r.result]
    /\ UNCHANGED vlast

StepCall(a) == StepCalled(a, step_n(Vm, a))

\* a step_n call on a fresh or saved frame
StepN == \E a \in StepArgs : StepCall(a)

\* a step_n call that resumes the frame returned by the call before
StepResume == \E a \in ResumeArgs : StepCall(a)

----------------------------------------------------------------------------
(* One frame run step by step: the interpreter of an execute call, or of a *)
(* step_n call on a frame the host saved, then the report to the host and  *)
(* the step_n calls a host may still make on the frame that has ended.     *)

\* the gas of the messages
RunGas == {30, 350, 20000}

\* the answers a host gives to the calls of a frame, in order
AnswerScripts ==
    {<<>>,
     <<[status_code |-> "EVMC_SUCCESS", spent |-> 10, refund |-> 4, bytes |-> <<222, 173>>]>>,
     <<[status_code |-> "EVMC_REVERT", spent |-> 30, refund |-> 0, bytes |-> <<1>>],
       [status_code |-> "EVMC_FAILURE", spent |-> 0, refund |-> 0, bytes |-> <<>>],
       [status_code |-> "EVMC_SUCCESS", spent |-> 100000, refund |-> 0, bytes |-> <<>>]>>}

\* the frame Interpreter::new starts from
new_frame(gas) ==
    [pc |-> 0, gas_left |-> gas, gas_refund |-> 0, stack |-> <<>>, memory |-> <<>>,
     last_call_return_data |-> <<>>, status |-> "Running", kind |-> "", output |-> <<>>,
     iterations |-> 0, callbacks |-> 0, seen |-> <<>>, answers |-> <<>>, calls |-> <<>>]

\* the frames a host saved and hands to step_n: stacks of one and two words
\* below the limit and at the limit, a memory of one and of two words
SavedFrames ==
    {[pc |-> 0, gas |-> gas, gas_refund |-> 5, stack |-> Fill(n, 1), memory |-> Zeros(m),
      last_call_return_data |-> <<7>>] :
        gas \in RunGas, n \in (StackLimit - 2)..StackLimit, m \in {32, 64}}

\* the gas below which a frame counts as started with little gas
LowGas == 400

RunStarts ==
    {[new_frame(gas) EXCEPT !.answers = script] : gas \in RunGas, script \in AnswerScripts}
        \cup {new_steppable(a) : a \in SavedFrames}

RunInit ==
    \E h \in RunCodeHashes, s \in RunStarts :
        interp = [h |-> h, s |-> s, start |-> s, result |-> <<>>, again |-> <<>>]

\* one iteration of the step loop
RunStep ==
    /\ interp.s.status = "Running"
    /\ interp.result = <<>>
    /\ interp' = [interp EXCEPT !.s = [Step(interp.h, interp.s) EXCEPT !.iterations = @ + 1]]

\* the result handed to the host when the frame has ended
Report(s) ==
    [status_code |-> StatusCodeOf(s.status, s.kind), gas_left |-> s.gas_left,
     gas_refund |-> s.gas_refund, output |-> s.output]

RunReport ==
    /\ interp.s.status # "Running"
    /\ interp.result = <<>>
    /\ interp' = [interp EXCEPT !.result = <<Report(interp.s)>>]

\* the arguments with which a host hands the frame to step_n
SavedArgs(h, s, steps) ==
    [step_status_code |-> StepStatusOf(s.status), h |-> h, pc |-> s.pc, gas |-> s.gas_left,
     gas_refund |-> s.gas_refund, stack |-> s.stack, memory |-> s.memory,
     last_call_return_data |-> s.last_call_return_data, steps |-> steps, context |-> TRUE]

\* a step_n call on the frame after it has ended
RunCalledAgain(r) ==
    /\ interp.result # <<>>
    /\ Len(interp.again) < MaxAgain
    /\ interp' = [interp EXCEPT !.again = Append(@, [iterations |-> r.iterations,
                                                    callbacks |-> r.callbacks,
                                                    result |-> r.result[1]])]
    /\ observer_type' = r.vm.observer_type
    /\ hash_cache' = r.vm.hash_cache
    /\ code_analysis_cache_steppable' = r.vm.code_analysis_cache_steppable
    /\ code_analysis_cache_non_steppable' = r.vm.code_analysis_cache_non_steppable
    /\ UNCHANGED vlast

RunAgain ==
    \E steps \in 1..MaxSteps :
        RunCalledAgain(step_n(Vm, SavedArgs(interp.h, interp.s, steps)))

----------------------------------------------------------------------------
(* CodeReader::new on one code analysis cache.  The host names the code by *)
(* a hash it supplies, or by none; nothing ties the hash to the bytes.     *)

\* the codes read and the hashes a host sends with them
NewRdCodes == {<<OpJumpDest>>, <<OpPush1, OpJumpDest>>, <<OpPush1, OpJumpDest, OpJumpDest>>}

NewRdHashes == {<<>>, <<1>>, <<2>>}

\* CodeAnalysis::new(code, code_hash, cache): with a hash one get_or_insert
\* under it whose builder analyses the code, without a hash the analysis of
\* the code and the cache left alone; ops are the cache operations made
code_analysis_new(code_bytes, code_hash, c) ==
    IF code_hash = <<>>
        THEN [cache |-> c, ret |-> analyze_code(code_bytes), hit |-> FALSE, ops |-> <<>>]
        ELSE [get_or_insert(c, code_hash[1], analyze_code(code_bytes)) EXCEPT !.evicted = <<>>]
                 @@ [ops |-> <<[op |-> "get_or_insert", key |-> code_hash[1]]>>]

\* a CodeReader::new that forgets the hash
code_reader_new_DropsHash(code_bytes, code_hash, p, c) ==
    [reader |-> [code |-> code_bytes, code_analysis |-> analyze_code(code_bytes), pc |-> p],
     cache |-> c, hit |-> FALSE, ops |-> <<>>]

\* CodeReader::new(code, code_hash, pc, cache): the reader holds the code,
\* the analysis CodeAnalysis::new returned and the pc
code_reader_new(code_bytes, code_hash, p, c) ==
    [reader |-> [code |-> code_bytes,
                 code_analysis |-> code_analysis_new(code_bytes, code_hash, c).ret,
                 pc |-> p],
     cache |-> code_analysis_new(code_bytes, code_hash, c).cache,
     hit |-> code_analysis_new(code_bytes, code_hash, c).hit,
     ops |-> code_analysis_new(code_bytes, code_hash, c).ops]

NewRdInit ==
    \E size \in 1..MaxCap : newrd = [cache |-> CacheNew(size), calls |-> <<>>]

\* what a CodeReader::new call leaves: the cache, and the record of the call
NewRdCalled(code_bytes, code_hash, r) ==
    newrd' = [cache |-> r.cache,
              calls |-> Append(newrd.calls,
                               [code |-> code_bytes, code_hash |-> code_hash,
                                before |-> newrd.cache, after |-> r.cache,
                                analysis |-> r.reader.code_analysis, hit |-> r.hit,
                                ops |-> r.ops])]

\* one CodeReader::new call
NewRdCall ==
    \E code_bytes \in NewRdCodes, code_hash \in NewRdHashes :
        /\ Len(newrd.calls) < MaxNewRd
        /\ NewRdCalled(code_bytes, code_hash, code_reader_new(code_bytes, code_hash, 0, newrd.cache))

----------------------------------------------------------------------------
(* EvmRs::execute on one VM whose options the host changes between calls.  *)
(* The host sends with each code the hash of that code, or none.           *)

\* the codes executed: one that returns the keccak of 32 bytes of memory,
\* the loop, and the one with the side effects
ExecCodes ==
    <<<<OpPush1, 32, OpPush1, 0, OpKeccak256, OpPush1, 0, OpMStore, OpPush1, 32, OpPush1, 0,
        OpReturn>>,
      RunCodes[1], RunCodes[3]>>

\* the inputs of an execute call: code, its hash or none, the gas of the
\* message, the answers of the host
ExecInputs ==
    {[code |-> ExecCodes[1], code_hash |-> ch, gas |-> 350, answers |-> <<>>, context |-> TRUE] :
        ch \in {<<>>, <<1>>}}
      \cup {[code |-> ExecCodes[2], code_hash |-> <<2>>, gas |-> 30, answers |-> <<>>,
             context |-> TRUE],
            [code |-> ExecCodes[3], code_hash |-> <<3>>, gas |-> 20000,
             answers |-> <<[status_code |-> "EVMC_SUCCESS", spent |-> 10, refund |-> 4,
                            bytes |-> <<222, 173>>]>>,
             context |-> TRUE],
            [code |-> ExecCodes[3], code_hash |-> <<>>, gas |-> 350, answers |-> <<>>,
             context |-> FALSE]}

\* the options a host sets between the calls
ExecOptions ==
    {<<"logging", StrTrue>>, <<"logging", StrFalse>>, <<"code-analysis-cache-size", <<"1">>>>,
     <<"hash-cache-size", <<"1">>>>}

\* the frame Interpreter::new starts from; KECCAK256 goes through the hash
\* cache of the VM
ExecFrame(vm, e) ==
    [new_frame(e.gas) EXCEPT !.answers = e.answers] @@ [hash_cache |-> vm.hash_cache]

\* the ExecutionResult of a frame that has ended
ExecResult(s) ==
    [status_code |-> StatusCodeOf(s.status, s.kind), gas_left |-> s.gas_left,
     gas_refund |-> s.gas_refund, output |-> s.output, create_address |-> <<>>]

\* what execute returns when the interpreter has run the frame to s with the
\* reader rd: both arms of the match on observer_type run it, the Logging
\* one writing a line per step to stdout
ExecEnded(vm, rd, s) ==
    [vm |-> [vm EXCEPT !.code_analysis_cache_non_steppable = rd.cache,
                       !.hash_cache = s.hash_cache],
     aborted |-> FALSE, hit |-> rd.hit,
     lines |-> IF vm.observer_type = "Logging" THEN s.iterations ELSE 0,
     result |-> <<ExecResult(s)>>]

\* Interpreter::new and Interpreter::run: the reader starts at pc 0 with the
\* analysis CodeReader::new obtained, and the loop has no budget
ExecRan(vm, e, rd) ==
    ExecEnded(vm, rd, RunWith(e.code, rd.reader.code_analysis, ExecFrame(vm, e), <<>>))

\* an execute whose Logging arm returns without running the interpreter
execute_run_LoggingSkipsRun(vm, e) ==
    IF ~e.context
        THEN [vm |-> vm, aborted |-> TRUE, hit |-> FALSE, lines |-> 0, result |-> <<>>]
    ELSE IF vm.observer_type = "Logging"
        THEN [vm |-> vm, aborted |-> FALSE, hit |-> FALSE, lines |-> 0,
              result |-> <<ExecResult(ExecFrame(vm, e))>>]
    ELSE ExecRan(vm, e, code_reader_new(e.code, e.code_hash, 0,
                                        vm.code_analysis_cache_non_steppable))

\* EvmRs::execute: without a context it aborts; else the interpreter is
\* built on the non-steppable analysis cache and the hash cache and run
execute_run(vm, e) ==
    IF ~e.context
        THEN [vm |-> vm, aborted |-> TRUE, hit |-> FALSE, lines |-> 0, result |-> <<>>]
    ELSE ExecRan(vm, e, code_reader_new(e.code, e.code_hash, 0,
                                        vm.code_analysis_cache_non_steppable))

ExecInit == exec = [calls |-> <<>>, aborted |-> FALSE]

\* what an execute call leaves: the VM, and the record of the call
ExecCalled(e, r) ==
    /\ exec' = [calls |-> Append(exec.calls, [input |-> e, vm |-> Vm, hit |-> r.hit,
                                             lines |-> r.lines, result |-> r.result]),
                aborted |-> r.aborted]
    /\ observer_type' = r.vm.observer_type
    /\ hash_cache' = r.vm.hash_cache
    /\ code_analysis_cache_steppable' = r.vm.code_analysis_cache_steppable
    /\ code_analysis_cache_non_steppable' = r.vm.code_analysis_cache_non_steppable
    /\ UNCHANGED vlast

\* one execute call
ExecCall ==
    \E e \in ExecInputs :
        /\ ~exec.aborted
        /\ Len(exec.calls) < MaxExec
        /\ ExecCalled(e, execute_run(Vm, e))

\* what a set_option call leaves
ExecOptionSet(r) ==
    /\ observer_type' = r.vm.observer_type
    /\ hash_cache' = r.vm.hash_cache
    /\ code_analysis_cache_steppable' = r.vm.code_analysis_cache_steppable
    /\ code_analysis_cache_non_steppable' = r.vm.code_analysis_cache_non_steppable
    /\ UNCHANGED <<vlast, exec>>

\* one set_option call between two execute calls
ExecSetOption ==
    \E o \in ExecOptions :
        /\ ~exec.aborted
        /\ ExecOptionSet(set_option(Vm, o[1], o[2]))

----------------------------------------------------------------------------
(* Claims about a frame run step by step.                                   *)

\* the status codes that report a failure
FailureCodes ==
    {"EVMC_FAILURE", "EVMC_OUT_OF_GAS", "EVMC_STACK_UNDERFLOW", "EVMC_STACK_OVERFLOW",
     "EVMC_INVALID_INSTRUCTION", "EVMC_BAD_JUMP_DESTINATION"}

\* the status code agrees with the final status of the frame, its kind
\* included
AgreesWithFinalStatus(status_code, s) ==
    CASE s.status \in {"Stopped", "Returned"} -> status_code = "EVMC_SUCCESS"
      [] s.status = "Reverted" -> status_code = "EVMC_REVERT"
      [] s.status = "Failed" /\ s.kind = "OutOfGas" -> status_code = "EVMC_OUT_OF_GAS"
      [] s.status = "Failed" -> status_code \in FailureCodes
      [] OTHER -> FALSE

\* the status code agrees with the step status the host handed back, which
\* carries no kind
AgreesWithStepStatus(status_code, s) ==
    CASE s.status \in {"Stopped", "Returned"} -> status_code = "EVMC_SUCCESS"
      [] s.status = "Reverted" -> status_code = "EVMC_REVERT"
      [] s.status = "Failed" -> status_code = "EVMC_FAILURE"
      [] OTHER -> FALSE

\* the status codes reported for the frame: by the interpreter when the
\* frame ended, and by step_n each time the ended frame was handed back
ReportedWhenEnded == {interp.result[i].status_code : i \in 1..Len(interp.result)}

ReportedWhenHandedBack == {interp.again[i].result.status_code : i \in 1..Len(interp.again)}

\* C21 as stated: every status reported to the host for a frame is the one
\* its final status determines: Success for Stopped and Returned, Revert for
\* Reverted, OutOfGas for Failed(OutOfGas), a failure code for every other
\* Failed kind.
C21_StatusFollowsFinalStatus ==
    \A status_code \in ReportedWhenEnded \cup ReportedWhenHandedBack :
        AgreesWithFinalStatus(status_code, interp.s)

\* C21: the status the interpreter reports when a frame ends is Success for
\* Stopped and Returned, Revert for Reverted, OutOfGas for Failed(OutOfGas)
\* and a failure code for every other Failed kind; step_n handed a frame
\* that has ended reports Success for Stopped and Returned, Revert for
\* Reverted and Failure for Failed whatever the kind was; a Failed frame is
\* never reported as Success or Revert.
C21_StatusFollowsFinalOrStepStatus ==
    /\ \A status_code \in ReportedWhenEnded : AgreesWithFinalStatus(status_code, interp.s)
    /\ \A status_code \in ReportedWhenHandedBack : AgreesWithStepStatus(status_code, interp.s)

\* a frame that ran out of gas was reported as OutOfGas when it ended and
\* as Failure when it was handed back
C21_Witness ==
    /\ interp.s.status = "Failed"
    /\ interp.s.kind = "OutOfGas"
    /\ "EVMC_OUT_OF_GAS" \in ReportedWhenEnded
    /\ "EVMC_FAILURE" \in ReportedWhenHandedBack

\* the statuses of a frame
FrameStatuses == {"Running", "Stopped", "Returned", "Reverted", "Failed"}

\* the frame s has ended and was reported
Ended(s) == s.status \in FrameStatuses \ {"Running"} /\ ((s.status = "Failed") <=> (s.kind # ""))

\* C22: a frame starts Running and reports one of Stopped, Returned,
\* Reverted, Failed(kind) once; after it has left Running its status, pc,
\* gas, stack, memory and the callbacks the host has seen never change, and
\* a step_n call on it runs no step-loop iteration, makes no host callback
\* and returns the same step status.
C22_OneTerminalStatus ==
    /\ interp.s.status = "Running"
    /\ [][/\ interp'.s.status \in FrameStatuses
          /\ Len(interp'.result) <= 1
          /\ interp'.result # <<>> => Ended(interp'.s)
          /\ interp.s.status # "Running" =>
                /\ interp'.s = interp.s
                /\ interp.result # <<>> => interp'.result = interp.result
                /\ \A i \in 1..Len(interp'.again) :
                       /\ interp'.again[i].iterations = 0
                       /\ interp'.again[i].callbacks = 0
                       /\ interp'.again[i].result.step_status_code
                              = StepStatusOf(interp.s.status)]_vars

\* a frame that a host call had made revert was reported and then handed to
\* step_n twice
C22_Witness ==
    /\ interp.s.status = "Reverted"
    /\ interp.s.callbacks > 0
    /\ Len(interp.result) = 1
    /\ Len(interp.again) = 2

\* C23: a frame started with finite gas, on a host whose callbacks return,
\* eventually leaves Running and its result is reported: every iteration of
\* the step loop that leaves the frame Running has lowered gas_left, which
\* is never negative, so no cycle of JUMP and JUMPI runs forever.
C23_ExecuteTerminates ==
    /\ <>(interp.result # <<>> /\ interp.s.status # "Running")
    /\ [][interp.s.status = "Running" /\ interp'.s.status = "Running" =>
              /\ interp'.s.gas_left < interp.s.gas_left
              /\ interp'.s.gas_left >= 0]_vars

\* the code that jumps back to its start for ever ran out of gas after more
\* than eighty opcodes, and the result was reported
C23_Witness ==
    /\ interp.result # <<>>
    /\ FrameCodes[interp.h][Len(FrameCodes[interp.h])] = OpJumpI
    /\ interp.s.kind = "OutOfGas"
    /\ interp.s.iterations > 80

\* the opcode the frame s is at, if there is one
OpcodeAt(h, s) == get(FrameCodes[h], StepAnalyses[h], s.pc)

\* what the opcode costs beyond its static gas: the memory it grows, the
\* bytes it logs, the value it sends
DynamicCost(op, s) ==
    CASE op \in {OpMLoad, OpMStore} -> ExpansionCost(s.memory, Peek(s, 1), 32)
      [] op \in {OpReturn, OpRevert} -> ExpansionCost(s.memory, Peek(s, 1), Peek(s, 2))
      [] op = OpLog0 -> ExpansionCost(s.memory, Peek(s, 1), Peek(s, 2)) + 8 * Peek(s, 2)
      [] op = OpKeccak256 ->
            ExpansionCost(s.memory, Peek(s, 1), Peek(s, 2)) + 6 * (Ceil32(Peek(s, 2)) \div 32)
      [] op \in CallOps ->
            ExpansionCost(s.memory, ArgsOffset(op, s), ArgsLen(op, s))
                + ExpansionCost(Expanded(s.memory, ArgsOffset(op, s), ArgsLen(op, s)),
                                RetOffset(op, s), RetLen(op, s))
                + ValueCost(op, s)
      [] OTHER -> 0

\* the opcode op of the frame s costs more than the frame has left
CostsTooMuch(op, s) ==
    \/ StaticGas(op) > s.gas_left
    \/ /\ Checked(op, s) = "Ok"
       /\ StaticGas(op) + DynamicCost(op, s) > s.gas_left

\* stack, memory and what the host has seen are the same in s and t
SameState(s, t) ==
    /\ t.stack = s.stack
    /\ t.memory = s.memory
    /\ t.seen = s.seen
    /\ t.callbacks = s.callbacks
    /\ t.pc = s.pc

\* C24: gas_left is never negative; an opcode whose static or dynamic cost
\* exceeds gas_left ends the frame in Failed(OutOfGas) with stack, memory
\* and host state as they were, and no other opcode does; a Failed frame
\* has gas_left = 0 and gas_refund = 0 and reports them, and a Reverted
\* frame keeps and reports the gas left after REVERT paid for its memory.
C24_GasNeverNegative ==
    [][/\ interp'.s.gas_left >= 0
       /\ interp'.s.status = "Failed" =>
              /\ interp'.s.gas_left = 0
              /\ interp'.s.gas_refund = 0
              /\ \A i \in 1..Len(interp'.result) :
                     interp'.result[i].gas_left = 0 /\ interp'.result[i].gas_refund = 0
       /\ interp'.s.status = "Reverted" =>
              \A i \in 1..Len(interp'.result) :
                  interp'.result[i].gas_left = interp'.s.gas_left
       /\ (interp.s.status = "Running" /\ OpcodeAt(interp.h, interp.s).res = "Ok") =>
              LET op == OpcodeAt(interp.h, interp.s).op[1] IN
              /\ CostsTooMuch(op, interp.s) <=>
                     (interp'.s.status = "Failed" /\ interp'.s.kind = "OutOfGas")
              /\ CostsTooMuch(op, interp.s) => SameState(interp.s, interp'.s)
              /\ interp'.s.status = "Reverted" =>
                     interp'.s.gas_left = interp.s.gas_left - DynamicCost(op, interp.s)]_vars

\* a frame that could pay the static gas of MSTORE but not the memory it
\* grows ended in Failed(OutOfGas) with its stack and memory as they were,
\* and was reported with no gas and no refund
C24_Witness ==
    /\ interp.s.kind = "OutOfGas"
    /\ OpcodeAt(interp.h, interp.s).res = "Ok"
    /\ OpcodeAt(interp.h, interp.s).op[1] = OpMStore
    /\ interp.start.gas_left >= 2 * StaticGas(OpPush1) + StaticGas(OpMStore)
    /\ interp.start.gas_refund > 0
    /\ interp.s.memory = interp.start.memory
    /\ Len(interp.s.stack) = Len(interp.start.stack) + 2
    /\ interp.result # <<>>
    /\ interp.result[1].gas_left = 0
    /\ interp.result[1].gas_refund = 0

WrittenBy(op, s) ==
    CASE op = OpMStore -> (Peek(s, 1) + 1)..(Peek(s, 1) + 32)
      [] op \in CallOps -> (RetOffset(op, s) + 1)..(RetOffset(op, s) + RetLen(op, s))
      [] OTHER -> {}

\* every memory access the opcode makes has length 0
AccessesNothing(op, s) ==
    CASE op \in {OpReturn, OpRevert, OpLog0} -> Peek(s, 2) = 0
      [] op \in CallOps -> ArgsLen(op, s) = 0 /\ RetLen(op, s) = 0
      [] OTHER -> FALSE

AfterOwnCosts(op, s) == s.gas_left - StaticGas(op) - DynamicCost(op, s)

\* the smaller of the gas a call asks for and all but one 64th of left
AllButOne64th(requested, left) ==
    IF requested < left - left \div 64 THEN requested ELSE left - left \div 64

\* the messages of the calls the host has seen, and the gas it gave back
CallsSeen(seen) == SelectSeq(seen, LAMBDA e : e.op = "call")

\* C27: when a frame executes CALL, CALLCODE, DELEGATECALL or STATICCALL
\* and the call is made, the message the host sees carries
\* min(requested, left - floor(left / 64)) gas, left being the gas after the
\* opcode's own costs, plus 2300 exactly when the opcode is CALL and the
\* value is not 0; afterwards the frame has left minus the forwarded gas
\* plus the gas_left of the callee's result.
C27_ForwardedGas ==
    [][(/\ interp.s.status = "Running"
        /\ OpcodeAt(interp.h, interp.s).res = "Ok"
        /\ OpcodeAt(interp.h, interp.s).op[1] \in CallOps
        /\ Checked(OpcodeAt(interp.h, interp.s).op[1], interp.s) = "Ok"
        /\ ~CostsTooMuch(OpcodeAt(interp.h, interp.s).op[1], interp.s)) =>
          LET op == OpcodeAt(interp.h, interp.s).op[1]
              left == AfterOwnCosts(op, interp.s)
              forwarded == AllButOne64th(Peek(interp.s, 1), left)
              sent == CallsSeen(interp'.s.seen)
              call == interp'.s.calls[Len(interp'.s.calls)] IN
          /\ Len(sent) = Len(CallsSeen(interp.s.seen)) + 1
          /\ Len(interp'.s.calls) = Len(interp.s.calls) + 1
          /\ sent[Len(sent)].message.kind = op
          /\ sent[Len(sent)].message.gas =
                 forwarded + (IF op = OpCall /\ CallValue(op, interp.s) # 0 THEN 2300 ELSE 0)
          /\ call.back >= 0
          /\ call.back <= sent[Len(sent)].message.gas
          /\ interp'.s.gas_left = left - forwarded + call.back]_vars

\* a STATICCALL that asked for 255 gas with 232 left was handed 229 and no
\* stipend, the callee spent 30 of it, and the caller went on with
\* 232 - 229 + 199 gas
C27_Witness ==
    /\ Len(interp.s.calls) = 1
    /\ interp.s.calls[1].op = OpStaticCall
    /\ interp.s.calls[1].requested = 255
    /\ interp.s.calls[1].before = 232
    /\ interp.s.calls[1].message.gas = 229
    /\ interp.s.calls[1].back = 199
    /\ interp.s.gas_left = 202
    /\ interp.s.status = "Running"

\* the callbacks with a side effect that the opcode op of the frame s
\* causes, as the host is to see them
Caused(op, s, after) ==
    CASE op = OpSStore -> <<[op |-> "set_storage", key |-> Peek(s, 1), value |-> Peek(s, 2)]>>
      [] op = OpTStore ->
            <<[op |-> "set_transient_storage", key |-> Peek(s, 1), value |-> Peek(s, 2)]>>
      [] op = OpLog0 -> <<[op |-> "emit_log", data |-> Slice(after.memory, Peek(s, 1), Peek(s, 2))]>>
      [] op = OpSelfDestruct -> <<[op |-> "selfdestruct", beneficiary |-> Peek(s, 1)]>>
      [] op \in CallOps ->
            <<[op |-> "call", message |-> after.calls[Len(after.calls)].message],
              after.seen[Len(after.seen)]>>
      [] OTHER -> <<>>

\* the kinds of what the host has seen, in order
KindsSeen(seen) == [i \in 1..Len(seen) |-> seen[i].op]

\* C28: what the host has seen of a frame only grows at its end; an opcode
\* that is executed adds exactly the callbacks it causes, so the host sees
\* set_storage, emit_log, call, selfdestruct and set_transient_storage in
\* the order of the opcodes; a call adds the message and, next to it, the
\* result the host gave, within one iteration of the step loop and one
\* callback, so that the caller does nothing in between.
C28_EffectsInProgramOrder ==
    [][/\ Len(interp'.s.seen) >= Len(interp.s.seen)
       /\ SubSeq(interp'.s.seen, 1, Len(interp.s.seen)) = interp.s.seen
       /\ interp.s.status # "Running" => interp'.s.seen = interp.s.seen
       /\ (/\ interp.s.status = "Running"
           /\ OpcodeAt(interp.h, interp.s).res = "Ok"
           /\ Checked(OpcodeAt(interp.h, interp.s).op[1], interp.s) = "Ok"
           /\ ~CostsTooMuch(OpcodeAt(interp.h, interp.s).op[1], interp.s)) =>
              LET op == OpcodeAt(interp.h, interp.s).op[1] IN
              /\ interp'.s.seen = interp.s.seen \o Caused(op, interp.s, interp'.s)
              /\ interp'.s.iterations = interp.s.iterations + 1
              /\ op \in CallOps =>
                     /\ interp'.s.seen[Len(interp'.s.seen)].op = "call_result"
                     /\ interp'.s.callbacks = interp.s.callbacks + 1]_vars

\* the host saw the storage write, the log, the call with its result, the
\* transient storage write and the self-destruct of one frame in the order
\* of its opcodes
C28_Witness ==
    /\ KindsSeen(interp.s.seen) =
           <<"set_storage", "emit_log", "call", "call_result", "set_transient_storage",
             "selfdestruct">>
    /\ interp.s.seen[1].key = 2
    /\ interp.s.seen[3].message.value = 5
    /\ interp.s.seen[5].key = 4
    /\ interp.s.status = "Stopped"

----------------------------------------------------------------------------
(* Claims about CodeReader::new.                                            *)

\* up to the k-th call equal hashes came only with equal code
HashesNameCode(k) ==
    \A i, j \in 1..k :
        (newrd.calls[i].code_hash # <<>> /\ newrd.calls[i].code_hash = newrd.calls[j].code_hash)
            => newrd.calls[i].code = newrd.calls[j].code

\* C30: a CodeReader::new call without a code hash makes no operation on
\* the analysis cache, leaves it as it was and works with the analysis of
\* its code; a call with the hash h makes a single get_or_insert on key h:
\* a hit returns the analysis stored under h, a miss returns the analysis
\* of the code and stores it under h; and as long as equal hashes have come
\* only with equal code, the reader's analysis is the analysis of its code.
C30_ReaderAnalysisIsDirect ==
    \A k \in 1..Len(newrd.calls) :
        LET call == newrd.calls[k] IN
        /\ call.code_hash = <<>> =>
               /\ call.ops = <<>>
               /\ call.after = call.before
               /\ call.analysis = analyze_code(call.code)
        /\ call.code_hash # <<>> =>
               /\ call.ops = <<[op |-> "get_or_insert", key |-> call.code_hash[1]]>>
               /\ call.hit <=> call.code_hash[1] \in KeysOf(call.before)
               /\ call.hit => call.analysis = CachedValue(call.before, call.code_hash[1])
               /\ ~call.hit => call.analysis = analyze_code(call.code)
               /\ call.code_hash[1] \in KeysOf(call.after)
               /\ CachedValue(call.after, call.code_hash[1]) = call.analysis
        /\ HashesNameCode(k) => call.analysis = analyze_code(call.code)

\* a code was read with a hash, then without one, then with the same hash
\* again: the third reader got the stored analysis, which is the direct one
C30_Witness ==
    /\ Len(newrd.calls) = 3
    /\ HashesNameCode(3)
    /\ newrd.calls[1].code_hash = <<1>>
    /\ ~newrd.calls[1].hit
    /\ newrd.calls[2].code_hash = <<>>
    /\ newrd.calls[2].code # newrd.calls[1].code
    /\ newrd.calls[3].code_hash = <<1>>
    /\ newrd.calls[3].hit
    /\ newrd.calls[3].analysis = analyze_code(newrd.calls[3].code)

----------------------------------------------------------------------------
(* Claims about execute.                                                    *)

----------------------------------------------------------------------------
(* Claims about the cells of the rewritten flavor.                         *)

\* the offsets at which the classification flavor has a JumpDest
ClassifiedTargets == {j \in 0..(Len(code) - 1) : At(code_analysis, j) = "JumpDest"}

\* the indices at which the rewritten flavor has a jump-dest cell
ConvertedTargets ==
    {j \in 0..(Len(creader.analysis) - 1) :
        OpFnData_code_byte_type(At(creader.analysis, j)) = "JumpDest"}

IsRun(cells, i, count) ==
    /\ count >= 1
    /\ i + count <= Len(cells)
    /\ At(cells, i) = func(OpSkipNoOps, U256Small(count))
    /\ \A k \in 1..(count - 1) : At(cells, i + k) = func(OpNoOp, NoTarget)
    /\ \A k \in 0..(count - 1) : OpFnData_code_byte_type(At(cells, i + k)) = "Opcode"

\* C38: for every count >= 1, skip_no_ops_iter(count) yields exactly count
\* cells, a SkipNoOps cell whose inline data is count and then count - 1
\* NoOp fillers, none of them with the jump-dest handler; in an analysis
\* every SkipNoOps cell starts such a run, jump_to on the SkipNoOps cell at
\* index i leaves the cursor at i + count, on the first cell after the run,
\* and the cursor is never on a filler.
C38_SkipNoOpsRun ==
    /\ \A count \in 1..(MaxCodeLen + 1) :
          /\ Len(skip_no_ops_iter(count)) = count
          /\ IsRun(skip_no_ops_iter(count), 0, count)
    /\ \A i \in 0..(Len(creader.analysis) - 1) :
          At(creader.analysis, i).func = <<OpSkipNoOps>> =>
              /\ IsRun(creader.analysis, i, At(creader.analysis, i).data[1])
              /\ InRange(creader.analysis, i + At(creader.analysis, i).data[1])
              /\ At(creader.analysis, i + At(creader.analysis, i).data[1]).func
                     \notin {<<OpNoOp>>, <<OpSkipNoOps>>}
    /\ InRange(creader.analysis, creader.pc) =>
          At(creader.analysis, creader.pc).func # <<OpNoOp>>
    /\ rlast.op = "jump_to" =>
          /\ creader.pc = rlast.at + rlast.n
          /\ IsRun(creader.analysis, rlast.at, rlast.n)

\* jump_to on the SkipNoOps cell behind a PUSH2 skipped that cell and its
\* filler and left the cursor on the JUMPDEST cell
C38_Witness ==
    /\ rlast.op = "jump_to"
    /\ rlast.n = 2
    /\ At(creader.analysis, rlast.at + 1) = func(OpNoOp, NoTarget)
    /\ creader.pc = rlast.at + 2
    /\ At(creader.analysis, creader.pc) = jump_dest
    /\ reader_pc(creader) = pc

----------------------------------------------------------------------------
(* Claims about the two sub-caches of the hash cache.                      *)

\* C32: HashCache::hash touches only the sub-cache of the input's length:
\* a 32-byte input leaves the 64-byte sub-cache as it was and is a hit
\* exactly when the 32-byte sub-cache held it, a 64-byte input likewise
\* with the sub-caches exchanged, an input of any other length (the empty
\* one too) leaves both as they were and is never a hit; so no key of one
\* length is evicted by inserting keys of the other.
C32_HashTouchesOneSubCache ==
    [][vlast'.op = "hash" =>
        /\ Len(vlast'.value) = HashLen32 =>
              /\ hash_cache'.hash_cache_64 = hash_cache.hash_cache_64
              /\ vlast'.hit <=> vlast'.value \in KeysOf(hash_cache.hash_cache_32)
              /\ vlast'.value \in KeysOf(hash_cache'.hash_cache_32)
        /\ Len(vlast'.value) = HashLen64 =>
              /\ hash_cache'.hash_cache_32 = hash_cache.hash_cache_32
              /\ vlast'.hit <=> vlast'.value \in KeysOf(hash_cache.hash_cache_64)
              /\ vlast'.value \in KeysOf(hash_cache'.hash_cache_64)
        /\ Len(vlast'.value) \notin {HashLen32, HashLen64} =>
              /\ hash_cache' = hash_cache
              /\ ~vlast'.hit
        /\ \A k \in vlast'.gone \ vlast.gone : Len(k) = Len(vlast'.value)]_vars

\* a 32-byte input was inserted into its full sub-cache, evicting another
\* 32-byte key, while the 64-byte sub-cache is full and holds all its keys
C32_Witness ==
    /\ vlast.op = "hash"
    /\ Len(vlast.value) = HashLen32
    /\ ~vlast.hit
    /\ \E k \in vlast.gone : Len(k) = HashLen32 /\ k \notin KeysOf(hash_cache.hash_cache_32)
    /\ Len(hash_cache.hash_cache_64.entries) = hash_cache.hash_cache_64.cap
    /\ \A k \in vlast.gone : Len(k) = HashLen32

----------------------------------------------------------------------------
(* Claims about what a successful option replaces.                         *)

\* every code hash misses in the analysis cache c
MissesEveryCode(c) == \A h \in CodeHashes : ~analysis_new(c, h).hit

\* every input of a cached length misses in the hash cache hc
MissesEveryInput(hc) ==
    \A data \in HashInputs :
        Len(data) \in {HashLen32, HashLen64} => ~hash(hc, data).hit

\* C33: a successful size option replaces only the cache it names, by an
\* empty one: after code-analysis-cache-size every code hash misses in
\* both analysis caches while the hash cache and the observer type are as
\* before; after hash-cache-size every 32- and 64-byte input misses while
\* both analysis caches and the observer type are as before; logging with
\* true or false changes the observer type and nothing else.
C33_OptionReplacesOnlyItsCache ==
    [][vlast'.op = "set_option" /\ vlast'.res = "Ok" =>
        /\ vlast'.key = "code-analysis-cache-size" =>
              /\ MissesEveryCode(code_analysis_cache_steppable')
              /\ MissesEveryCode(code_analysis_cache_non_steppable')
              /\ hash_cache' = hash_cache
              /\ observer_type' = observer_type
        /\ vlast'.key = "hash-cache-size" =>
              /\ MissesEveryInput(hash_cache')
              /\ code_analysis_cache_steppable' = code_analysis_cache_steppable
              /\ code_analysis_cache_non_steppable' = code_analysis_cache_non_steppable
              /\ observer_type' = observer_type
        /\ vlast'.key = "logging" /\ vlast'.value \in {StrTrue, StrFalse} =>
              /\ observer_type' = IF vlast'.value = StrTrue THEN "Logging" ELSE "NoOp"
              /\ hash_cache' = hash_cache
              /\ code_analysis_cache_steppable' = code_analysis_cache_steppable
              /\ code_analysis_cache_non_steppable' = code_analysis_cache_non_steppable]_vars

\* hash-cache-size has succeeded on a VM that logs and whose two analysis
\* caches hold entries, which are still there
C33_Witness ==
    /\ vlast.op = "set_option"
    /\ vlast.key = "hash-cache-size"
    /\ vlast.res = "Ok"
    /\ observer_type = "Logging"
    /\ hash_cache.hash_cache_32.entries = <<>>
    /\ KeysOf(code_analysis_cache_steppable) = CodeHashes
    /\ KeysOf(code_analysis_cache_non_steppable) # {}

----------------------------------------------------------------------------
(* Claims about ExecutionContext::call.                                    *)

\* the message the host's call callback received last
Received == ctx.host_calls[Len(ctx.host_calls)].ret

\* the ExecutionMessage passed to the last call
Passed == ctx.last.ret[1]

\* C34: ExecutionContext::call forwards the message one to one: the message
\* the host's call callback receives has kind, flags, depth, gas, recipient,
\* sender, input bytes, value, create2_salt, code_address, code bytes and
\* code_hash equal to those of the ExecutionMessage passed in, with a null
\* input (code) pointer exactly when the message has no input (code).
C34_CallForwardsMessage ==
    ctx.last.op = "call" =>
        /\ Received.kind = Passed.kind
        /\ Received.flags = Passed.flags
        /\ Received.depth = Passed.depth
        /\ Received.gas = Passed.gas
        /\ Received.recipient = Passed.recipient
        /\ Received.sender = Passed.sender
        /\ Received.input_size = Len(Received.input_bytes)
        /\ Received.input_bytes = VecBytes(Passed.input)
        /\ Received.input_data = "null" <=> Passed.input = <<>>
        /\ Received.value = Passed.value
        /\ Received.create2_salt = Passed.create2_salt
        /\ Received.code_address = Passed.code_address
        /\ Received.code_size = Len(Received.code_bytes)
        /\ Received.code_bytes = VecBytes(Passed.code)
        /\ Received.code = "null" <=> Passed.code = <<>>
        /\ Received.code_hash = Passed.code_hash

----------------------------------------------------------------------------
(* Claims about the result handed to the host.                             *)

\* the bytes of an Option<Vec<u8>>, none for an absent one
OutputBytes(output) == IF output = <<>> THEN <<>> ELSE output[1]

\* C35: converting an ExecutionResult to the C result and back preserves
\* status_code, gas_left, gas_refund and the output bytes; the C result has
\* a null output pointer with size 0 exactly when the output is absent or
\* empty, always carries a release callback, and its output buffer is
\* allocated once and freed exactly once by one call of that callback;
\* nothing is allocated or freed for an empty output.
C35_ResultRoundTrip ==
    /\ conv.stage # "value" =>
          /\ conv.result.status_code = conv.value.status_code
          /\ conv.result.gas_left = conv.value.gas_left
          /\ conv.result.gas_refund = conv.value.gas_refund
          /\ conv.result.bytes = OutputBytes(conv.value.output)
          /\ conv.result.output_size = Len(conv.result.bytes)
          /\ conv.result.output_data = "null" <=> OutputBytes(conv.value.output) = <<>>
          /\ conv.result.output_data = "null" => conv.result.output_size = 0
          /\ conv.result.release
          /\ conv.allocs = IF OutputBytes(conv.value.output) = <<>> THEN 0 ELSE 1
    /\ conv.stage = "ffi" => conv.frees = 0 /\ conv.releases = 0
    /\ conv.stage \in {"back", "released"} =>
          /\ conv.releases = 1
          /\ conv.frees = conv.allocs
    /\ conv.stage = "back" =>
          /\ conv.res = "Ok"
          /\ conv.ret.status_code = conv.value.status_code
          /\ conv.ret.gas_left = conv.value.gas_left
          /\ conv.ret.gas_refund = conv.value.gas_refund
          /\ OutputBytes(conv.ret.output) = OutputBytes(conv.value.output)

\* a result with a two-byte output went to the host and back: one buffer
\* was allocated, copied from, and freed by the one release call
C35_Witness ==
    /\ conv.stage = "back"
    /\ Len(OutputBytes(conv.value.output)) = 2
    /\ conv.ret.output = conv.value.output
    /\ conv.events = <<"copy", "release">>
    /\ conv.allocs = 1
    /\ conv.frees = 1

----------------------------------------------------------------------------
(* Claims about step_n.                                                     *)

\* the last transition was a step_n call that did not abort
SteppedTo(f) == f.op = "step_n" /\ ~f.aborted

\* C19: step_n entered with a step status other than Running returns at
\* once: no step-loop iteration, no host callback, no cache touched, and the
\* result carries the step status, pc, gas_refund, stack, memory and
\* last_call_return_data given, an empty output, and the status code
\* Success for Stopped and Returned, Revert for Reverted, Failure for Failed.
C19_NonRunningReturnsAtOnce ==
    [][(frame'.op = "step_n" /\ frame'.args.step_status_code # "EVMC_STEP_RUNNING") =>
          LET a == frame'.args IN
          /\ ~frame'.aborted
          /\ frame'.iterations = 0
          /\ frame'.callbacks = 0
          /\ VmFieldsUnchanged
          /\ Len(frame'.result) = 1
          /\ LET r == frame'.result[1] IN
             /\ r.step_status_code = a.step_status_code
             /\ r.pc = a.pc
             /\ r.gas_refund = a.gas_refund
             /\ r.stack = a.stack
             /\ r.memory = a.memory
             /\ r.last_call_return_data = a.last_call_return_data
             /\ r.output = <<>>
             /\ r.status_code =
                    CASE a.step_status_code \in {"EVMC_STEP_STOPPED", "EVMC_STEP_RETURNED"}
                             -> "EVMC_SUCCESS"
                      [] a.step_status_code = "EVMC_STEP_REVERTED" -> "EVMC_REVERT"
                      [] a.step_status_code = "EVMC_STEP_FAILED" -> "EVMC_FAILURE"]_vars

\* a reverted frame with a stack and return data came back as it was, after
\* the cache had been filled by an earlier call
C19_Witness ==
    /\ SteppedTo(frame)
    /\ frame.args.step_status_code = "EVMC_STEP_REVERTED"
    /\ frame.args.stack = <<1, 2>>
    /\ frame.args.last_call_return_data = <<7>>
    /\ frame.result[1].status_code = "EVMC_REVERT"
    /\ code_analysis_cache_steppable.entries # <<>>

\* the frame after n iterations of the step loop, stopping at a terminal one
RECURSIVE StateAfter(_, _, _)
StateAfter(h, s, n) ==
    IF n = 0 \/ s.status # "Running" THEN s
    ELSE TheOne({StateAfter(h, t, n - 1) : t \in {Step(h, s)}})

\* the frame a Running step_n call starts from
StartOf(a) ==
    [pc |-> a.pc, gas_left |-> a.gas, gas_refund |-> a.gas_refund, stack |-> a.stack,
     memory |-> a.memory, last_call_return_data |-> a.last_call_return_data,
     status |-> "Running", kind |-> "", output |-> <<>>, iterations |-> 0,
     callbacks |-> 0, seen |-> <<>>, answers |-> <<>>, calls |-> <<>>]

\* the result describes the frame s
Describes(r, s) ==
    /\ r.step_status_code = StepStatusOf(s.status)
    /\ r.pc = s.pc
    /\ r.gas_left = s.gas_left
    /\ r.gas_refund = s.gas_refund
    /\ r.stack = s.stack
    /\ r.memory = s.memory
    /\ r.last_call_return_data = s.last_call_return_data

\* C20: step_n entered Running with a budget of steps runs at most steps
\* iterations of the step loop, none when steps = 0; a frame still Running
\* when the budget is used up comes back Running with pc, gas_left,
\* gas_refund, stack, memory and last_call_return_data of the state after
\* exactly steps iterations; otherwise the result is the terminal state
\* reached within the budget.
C20_StepBudget ==
    [][(SteppedTo(frame') /\ frame'.args.step_status_code = "EVMC_STEP_RUNNING") =>
          LET a == frame'.args
              r == frame'.result[1]
              n == frame'.iterations IN
          /\ n <= a.steps
          /\ Describes(r, StateAfter(a.h, StartOf(a), n))
          /\ \A j \in 0..(n - 1) : StateAfter(a.h, StartOf(a), j).status = "Running"
          /\ IF StateAfter(a.h, StartOf(a), a.steps).status = "Running"
                THEN n = a.steps /\ r.step_status_code = "EVMC_STEP_RUNNING"
                ELSE r.step_status_code # "EVMC_STEP_RUNNING"]_vars

\* two pushes ran on a budget of two and the frame came back Running with
\* both words on the stack and the ADD still to run
C20_Witness ==
    /\ SteppedTo(frame)
    /\ frame.args.step_status_code = "EVMC_STEP_RUNNING"
    /\ frame.args.h = 1 /\ frame.args.pc = 0 /\ frame.args.steps = 2
    /\ frame.iterations = 2
    /\ frame.result[1].step_status_code = "EVMC_STEP_RUNNING"
    /\ frame.result[1].stack = <<2, 3>>
    /\ frame.result[1].pc = 4

\* the two calls ended as the one call r did
EndsAs(first, second, r) ==
    /\ second.result[1].step_status_code = r.result[1].step_status_code
    /\ second.result[1].pc = r.result[1].pc
    /\ second.result[1].gas_left = r.result[1].gas_left
    /\ second.result[1].gas_refund = r.result[1].gas_refund
    /\ second.result[1].stack = r.result[1].stack
    /\ second.result[1].memory = r.result[1].memory
    /\ second.result[1].last_call_return_data = r.result[1].last_call_return_data
    /\ second.result[1].output = r.result[1].output
    /\ first.callbacks + second.callbacks = r.callbacks

\* C37: stepping composes: a step_n with budget k followed by a step_n with
\* budget m that resumes from what the first returned (step status, pc,
\* gas_refund, stack, memory, last_call_return_data, and the returned
\* gas_left as the gas of the message) ends in the same step status, pc,
\* gas_left, gas_refund, stack, memory, return data and output, and makes
\* the same host callbacks, as one step_n with budget k + m from the start.
C37_SteppingComposes ==
    [][(/\ SteppedTo(frame)
        /\ frame.args.step_status_code = "EVMC_STEP_RUNNING"
        /\ SteppedTo(frame')
        /\ frame'.args \in ResumeArgs) =>
          EndsAs(frame, frame',
                 step_n(Vm, [frame.args EXCEPT !.steps = @ + frame'.args.steps]))]_vars

\* C36: step_n entered with a step status other than Running does not alter
\* the remaining gas of the frame: the gas_left it reports is the gas of the
\* message it was given, so that a further step_n on the finished frame
\* reproduces the result.
C36_EndedFrameKeepsGas ==
    /\ frame.op = "step_n"
    /\ frame.args.step_status_code # "EVMC_STEP_RUNNING"
    /\ frame.result # <<>>
    => frame.result[1].gas_left = frame.args.gas

----------------------------------------------------------------------------
CacheIdle ==
    /\ cache = <<>>
    /\ calls = <<>>
    /\ clast = <<>>

VmIdle ==
    /\ observer_type = "NoOp"
    /\ hash_cache = <<>>
    /\ code_analysis_cache_steppable = <<>>
    /\ code_analysis_cache_non_steppable = <<>>
    /\ vlast = VmLastNone

HostIdle ==
    /\ gen = <<>>
    /\ host = <<>>

FfiIdle == ffi = <<>>
CtxIdle == ctx = <<>>
ConvIdle == conv = <<>>
FrameIdle == frame = <<>>
CReaderIdle == creader = <<>>
InterpIdle == interp = <<>>
NewRdIdle == newrd = <<>>
ExecIdle == exec = <<>>
RunIdle == InterpIdle /\ NewRdIdle /\ ExecIdle

ExtIdle == FfiIdle /\ CtxIdle /\ ConvIdle /\ FrameIdle /\ CReaderIdle /\ RunIdle

InitReader == ReaderInit /\ CacheIdle /\ ConcIdle /\ VmIdle /\ HostIdle /\ ExtIdle

ReaderFrame == UNCHANGED <<cacheVars, concVars, vmVars, hostVars, extVars>>

NextReader ==
    \/ ReaderNext /\ ReaderFrame
    \/ ReaderTryJump /\ ReaderFrame
    \/ ReaderGet /\ ReaderFrame

SpecReader == InitReader /\ [][NextReader]_vars

InitCache == ReaderIdle /\ CacheInit /\ ConcIdle /\ VmIdle /\ HostIdle /\ ExtIdle

NextCache ==
    /\ CacheGetOrInsert
    /\ UNCHANGED <<readerVars, concVars, vmVars, hostVars, extVars>>

SpecCache == InitCache /\ [][NextCache]_vars

InitCacheConc ==
    /\ ReaderIdle /\ ConcInit /\ VmIdle /\ HostIdle /\ ExtIdle
    /\ calls = <<>>
    /\ clast = <<>>

ConcFrame == UNCHANGED <<readerVars, calls, clast, vmVars, hostVars, extVars>>

NextCacheConc ==
    \E t \in Threads :
        \/ ThreadCall(t) /\ ConcFrame
        \/ ThreadLock(t) /\ ConcFrame
        \/ ThreadLookup(t) /\ ConcFrame
        \/ ThreadBuild(t) /\ ConcFrame
        \/ ThreadInsert(t) /\ ConcFrame
        \/ ThreadUnlock(t) /\ ConcFrame

SpecCacheConc == InitCacheConc /\ [][NextCacheConc]_vars

InitHash == ReaderIdle /\ CacheIdle /\ ConcIdle /\ HashInit /\ HostIdle /\ ExtIdle

NextHash == HashCall /\ UNCHANGED <<readerVars, cacheVars, concVars, hostVars, extVars>>

SpecHash == InitHash /\ [][NextHash]_vars

InitVm == ReaderIdle /\ CacheIdle /\ ConcIdle /\ VmInit /\ HostIdle /\ ExtIdle

VmFrame == UNCHANGED <<readerVars, cacheVars, concVars, hostVars, extVars>>

NextVm ==
    \/ VmSetOption /\ VmFrame
    \/ VmNewReader /\ VmFrame
    \/ VmHash /\ VmFrame

SpecVm == InitVm /\ [][NextVm]_vars

InitVmConc == ReaderIdle /\ CacheIdle /\ ConcIdle /\ VmInit /\ HostInit /\ ExtIdle

HostFrame == UNCHANGED <<readerVars, cacheVars, concVars, extVars>>

NextVmConc ==
    \E t \in HostThreads :
        \/ HostEnter(t) /\ HostFrame
        \/ HostNew(t) /\ HostFrame
        \/ HostObserver(t) /\ HostFrame
        \/ HostRun(t) /\ HostFrame
        \/ HostSetOption(t) /\ HostFrame
        \/ HostSetFirst(t) /\ HostFrame
        \/ HostSetSecond(t) /\ HostFrame

SpecVmConc == InitVmConc /\ [][NextVmConc]_vars

InitPush == PushInit /\ CacheIdle /\ ConcIdle /\ VmIdle /\ HostIdle /\ ExtIdle

NextPush ==
    \/ ReaderGetPushData /\ ReaderFrame
    \/ ReaderNext /\ ReaderFrame
    \/ ReaderGet /\ ReaderFrame

SpecPush == InitPush /\ [][NextPush]_vars

InitPc ==
    /\ PcInit /\ CacheIdle /\ ConcIdle /\ VmIdle /\ HostIdle
    /\ FfiIdle /\ CtxIdle /\ ConvIdle /\ FrameIdle /\ RunIdle

PcFrame == UNCHANGED <<cacheVars, concVars, vmVars, hostVars, ffi, ctx, conv, frame, runVars>>

NextPc ==
    \/ PcPush /\ PcFrame
    \/ PcNext /\ PcFrame
    \/ PcSkip /\ PcFrame
    \/ PcTryJump /\ PcFrame

SpecPc == InitPc /\ [][NextPc]_vars

InitCtx ==
    /\ ReaderIdle /\ CacheIdle /\ ConcIdle /\ VmIdle /\ HostIdle
    /\ FfiIdle /\ CtxInit /\ ConvIdle /\ FrameIdle /\ CReaderIdle /\ RunIdle

CtxFrame ==
    UNCHANGED <<readerVars, cacheVars, concVars, vmVars, hostVars, ffi, conv, frame, creader, runVars>>

NextCtx ==
    \/ CtxGetTxContext /\ CtxFrame
    \/ CtxOtherCallback /\ CtxFrame
    \/ CtxCall /\ CtxFrame

SpecCtx == InitCtx /\ [][NextCtx]_vars

InitConv ==
    /\ ReaderIdle /\ CacheIdle /\ ConcIdle /\ VmIdle /\ HostIdle
    /\ FfiIdle /\ CtxIdle /\ ConvInit /\ FrameIdle /\ CReaderIdle /\ RunIdle

NextConv ==
    /\ ConvFrom
    /\ UNCHANGED <<readerVars, cacheVars, concVars, vmVars, hostVars, ffi, ctx, frame, creader, runVars>>

SpecConv == InitConv /\ [][NextConv]_vars

InitInto ==
    /\ ReaderIdle /\ CacheIdle /\ ConcIdle /\ VmIdle /\ HostIdle
    /\ FfiIdle /\ CtxIdle /\ IntoInit /\ FrameIdle /\ CReaderIdle /\ RunIdle

IntoRestFrame ==
    UNCHANGED <<readerVars, cacheVars, concVars, vmVars, hostVars, ffi, ctx, frame, creader, runVars>>

NextInto ==
    \/ IntoFfi /\ IntoRestFrame
    \/ IntoRelease /\ IntoRestFrame
    \/ IntoBack /\ IntoRestFrame

SpecInto == InitInto /\ [][NextInto]_vars

InitFfi ==
    /\ ReaderIdle /\ CacheIdle /\ ConcIdle /\ VmInit /\ HostIdle
    /\ FfiInit /\ CtxIdle /\ ConvIdle /\ FrameIdle /\ CReaderIdle /\ RunIdle

FfiFrame == UNCHANGED <<readerVars, cacheVars, concVars, hostVars, ctx, conv, frame, creader, runVars>>

NextFfi ==
    \/ FfiSetOption /\ FfiFrame
    \/ FfiGetCapabilities /\ FfiFrame
    \/ FfiDestroy /\ FfiFrame
    \/ FfiExecute /\ FfiFrame

SpecFfi == InitFfi /\ [][NextFfi]_vars

InitStep ==
    /\ ReaderIdle /\ CacheIdle /\ ConcIdle /\ VmInit /\ HostIdle
    /\ FfiIdle /\ CtxIdle /\ ConvIdle /\ FrameInit /\ CReaderIdle /\ RunIdle

StepFrame == UNCHANGED <<readerVars, cacheVars, concVars, hostVars, ffi, ctx, conv, creader, runVars>>

NextStep ==
    \/ StepN /\ StepFrame
    \/ StepResume /\ StepFrame

SpecStep == InitStep /\ [][NextStep]_vars

InitRun ==
    /\ ReaderIdle /\ CacheIdle /\ ConcIdle /\ VmInit /\ HostIdle
    /\ FfiIdle /\ CtxIdle /\ ConvIdle /\ FrameIdle /\ CReaderIdle /\ RunInit /\ NewRdIdle /\ ExecIdle

RunFrame ==
    UNCHANGED <<readerVars, cacheVars, concVars, hostVars, ffi, ctx, conv, frame, creader, newrd, exec>>

NextRun ==
    \/ RunStep /\ RunFrame /\ UNCHANGED vmVars
    \/ RunReport /\ RunFrame /\ UNCHANGED vmVars
    \/ RunAgain /\ RunFrame

SpecRun == InitRun /\ [][NextRun]_vars

\* the frames that start with little gas
InitRunLow == InitRun /\ interp.start.gas_left <= LowGas

\* the interpreter goes on while the frame is Running, and then reports
SpecRunFair ==
    /\ InitRunLow
    /\ [][NextRun]_vars
    /\ WF_vars(RunStep /\ RunFrame /\ UNCHANGED vmVars)
    /\ WF_vars(RunReport /\ RunFrame /\ UNCHANGED vmVars)

InitNewRd ==
    /\ ReaderIdle /\ CacheIdle /\ ConcIdle /\ VmInit /\ HostIdle
    /\ FfiIdle /\ CtxIdle /\ ConvIdle /\ FrameIdle /\ CReaderIdle /\ InterpIdle
    /\ NewRdInit /\ ExecIdle

NewRdFrame ==
    UNCHANGED <<readerVars, cacheVars, concVars, vmVars, hostVars, ffi, ctx, conv, frame,
                creader, interp, exec>>

NextNewRd == NewRdCall /\ NewRdFrame

SpecNewRd == InitNewRd /\ [][NextNewRd]_vars

InitExec ==
    /\ ReaderIdle /\ CacheIdle /\ ConcIdle /\ VmInit /\ HostIdle
    /\ FfiIdle /\ CtxIdle /\ ConvIdle /\ FrameIdle /\ CReaderIdle /\ InterpIdle
    /\ NewRdIdle /\ ExecInit

ExecRestFrame ==
    UNCHANGED <<readerVars, cacheVars, concVars, hostVars, ffi, ctx, conv, frame, creader,
                interp, newrd>>

NextExec ==
    \/ ExecCall /\ ExecRestFrame
    \/ ExecSetOption /\ ExecRestFrame

SpecExec == InitExec /\ [][NextExec]_vars

====
